---- MODULE Spec2Model ----
(***************************************************************************)
(* Sprint impact service, React client (ImpactAnalyzer.jsx, Dashboard.jsx, *)
(* ImpactDashboard.jsx, api.js) together with the store it talks to.       *)
(*                                                                         *)
(* Optional values (null / undefined in the source) are sequences of       *)
(* length at most one: <<>> is null, <<v>> is the value v.                 *)
(***************************************************************************)
EXTENDS Integers, Sequences, FiniteSets, TLC

VARIABLES
    \* ---- store behind the API (backlog_items and analysis logs) ----
    items,          \* sequence of backlog items, the id of an item is its index
    logs,           \* sequence of analysis logs, log_id is the index
    unlogged,       \* analyses answered without a log id
    \* ---- AgileManagement and Dashboard component state ----
    selectedSpace,  \* AgileManagement: TRUE while the space is open
    activeTab,
    dashLoading,    \* Dashboard's `loading`
    sprints,        \* Dashboard's `sprints`, the prop handed to ImpactAnalyzer
    backlogItems,   \* Dashboard's `backlogItems`
    \* ---- ImpactAnalyzer component state ----
    selectedSprint, \* id of the selected sprint, "" when null / undefined
    formData,
    analysis,
    loading,
    sprintContext,
    actionResult,
    \* ---- RecommendationCard component state (of the mounted card) ----
    executing,
    done,
    doneMsg,
    \* ---- calls in flight ----
    dashReqs,       \* Dashboard calls: loadData, updateBacklogItem (assign)
    analyzeReqs,    \* api.analyzeImpact calls awaiting their response
    ctxReqs,        \* api.getSprintContext calls in flight, per sprint
    actionReqs,     \* handleAction runs suspended at an await
    \* ---- observations ----
    feedbackSent,   \* every recordImpactFeedback request issued, in order
    \* ---- ImpactDashboard / metric cards rendering ----
    display,            \* the `display` object of an analysis result
    dashboardMetrics,   \* `metrics` built by ImpactDashboard
    banner,             \* what OverallRiskBanner shows
    analyzerCards,      \* the metric cards ImpactAnalyzer renders
    \* ---- the analysis log store on its own ----
    patchReqs,          \* feedback patches sent and not yet applied
    patchResult,        \* what the last applied patch answered
    \* ---- the recommendation engine on its own ----
    engineIn,           \* (metrics, context, candidate, sprintItems) of a call
    engineOut,          \* the recommendation returned, at most one
    \* ---- analysis history: the store's dated logs and HistoryTable ----
    histStore,          \* the logs with their space and date, as recorded
    histReqs,           \* getAnalysisHistory calls in flight
    histReturned,       \* what the last answered call returned, at most one
    hLogs,              \* HistoryTable: logs
    hLoading,           \* HistoryTable: loading
    hError,             \* HistoryTable: an error is shown
    \* ---- sprint lifecycle: the store's sprints and the Dashboard's buttons ----
    sprintDocs,         \* the store's sprints: id -> [status, name]
    boardItem,          \* the store's backlog item: [sprint_id, status]
    shownSprints,       \* Dashboard: sprints as last loaded, <<>> before
    sprintsLoading,     \* Dashboard: loading, which hides the sprint list
    finishingSprint,    \* Dashboard: the sprint of the open FinishSprintModal
    moveOption,         \* FinishSprintModal: moveOption
    targetSprintId,     \* FinishSprintModal: targetSprintId
    finishLoading,      \* FinishSprintModal: loading
    incompleteItems,    \* FinishSprintModal: incompleteItems is not empty
    sprintReqs,         \* handlers suspended at an await
    \* ---- story points: the two forms that write them and the store ----
    iaStoryPoints,      \* ImpactAnalyzer: formData.story_points
    iaAnalysed,         \* ImpactAnalyzer: "none", "shown", "done" (acted on)
    modalItem,          \* BacklogModal: <<>> closed, <<0>> create, <<i>> edit
    modalStoryPoints,   \* BacklogModal: formData.story_points
    pointItems,         \* the store's items: [story_points, via]
    \* ---- sprint dates: the burndown series and the Days cell ----
    calSprint,          \* the sprint: [start_date, end_date, total_points]
    calNow,             \* the clock, in half days
    burndownOut,        \* <<>> or <<the burndown response>>
    daysCell,           \* <<>> or <<the Days cell as last rendered>>
    \* ---- ApiClient.request on its own ----
    apiFlight,          \* <<>> or <<the call suspended at an await>>
    apiOutcome          \* <<>> or <<how the last settled call ended>>

storeVars   == <<items, logs, unlogged>>
dashVars    == <<selectedSpace, activeTab, dashLoading, sprints, backlogItems>>
iaVars      == <<selectedSprint, formData, analysis, loading, sprintContext,
                 actionResult>>
cardVars    == <<executing, done, doneMsg>>
flightVars  == <<analyzeReqs, ctxReqs, actionReqs>>
obsVars     == <<feedbackSent>>
displayVars == <<display, dashboardMetrics, banner, analyzerCards>>
logStoreVars == <<patchReqs, patchResult>>
\* what the client-and-store specification leaves alone
engineVars  == <<engineIn, engineOut>>
historyVars == <<histStore, histReqs, histReturned, hLogs, hLoading, hError>>
finishVars  == <<finishingSprint, moveOption, targetSprintId, finishLoading,
                 incompleteItems>>
lifeVars    == <<sprintDocs, boardItem, shownSprints, sprintsLoading,
                 finishVars, sprintReqs>>
pointVars   == <<iaStoryPoints, iaAnalysed, modalItem, modalStoryPoints,
                 pointItems>>
dateVars    == <<calSprint, calNow, burndownOut, daysCell>>
apiVars     == <<apiFlight, apiOutcome>>
restVars    == <<logStoreVars, engineVars, historyVars, lifeVars, pointVars,
                 dateVars, apiVars>>
vars        == <<items, logs, unlogged, selectedSpace, activeTab, dashLoading, sprints,
                 backlogItems, selectedSprint, formData, analysis, loading,
                 sprintContext, actionResult, executing, done, doneMsg,
                 dashReqs, analyzeReqs, ctxReqs, actionReqs, feedbackSent,
                 display, dashboardMetrics, banner, analyzerCards,
                 patchReqs, patchResult, engineIn, engineOut,
                 histStore, histReqs, histReturned, hLogs, hLoading, hError,
                 sprintDocs, boardItem, shownSprints, sprintsLoading,
                 finishingSprint,
                 moveOption, targetSprintId, finishLoading, incompleteItems,
                 sprintReqs, iaStoryPoints, iaAnalysed, modalItem,
                 modalStoryPoints, pointItems, calSprint, calNow,
                 burndownOut, daysCell, apiFlight, apiOutcome>>

----------------------------------------------------------------------------
(* Bounds of the model *)
MaxItems    == 2   \* backlog items the store can hold
MaxAnalyses == 1   \* analyses answered in one run
MaxInflight == 2   \* handleAction runs suspended at the same time
MaxCtxReqs  == 1   \* context calls in flight per sprint
MaxDashReqs == 1   \* Dashboard calls in flight

(* Values the inputs are drawn from *)
NoSprint     == ""
SpaceId      == "space1"
SprintIds    == {"s1", "s2"}
SprintOrder  == <<"s1", "s2">>
Tabs         == {"scrums", "impact-analyzer", "analytics", "settings"}
FieldValues  ==
    [title |-> {"", "A"}, description |-> {""}, story_points |-> {5},
     priority |-> {"Medium"}, type |-> {"Task"}]

\* <ImpactAnalyzer sprints={sprints} />: Dashboard passes no spaceId prop
SpaceIdProp  == ""

----------------------------------------------------------------------------
(* Helpers *)
RECURSIVE SumOver(_, _)
SumOver(its, S) ==
    IF S = {} THEN 0
    ELSE LET i == CHOOSE x \in S : TRUE
         IN  its[i].story_points + SumOver(its, S \ {i})

SprintItems(its, s) == {i \in 1..Len(its) : its[i].sprint_id = s}
ItemCount(its, s)   == Cardinality(SprintItems(its, s))
CurrentLoad(its, s) == SumOver(its, SprintItems(its, s))

RemoveAt(seq, i) == SubSeq(seq, 1, i - 1) \o SubSeq(seq, i + 1, Len(seq))

SprintSpace(s) == SpaceId

----------------------------------------------------------------------------
(* ImpactAnalyzer.jsx, pure parts *)
ACTION_META == {"ADD", "SWAP", "DEFER", "SPLIT", "ACCEPT"}
RecTypes    == {"ADD", "SWAP", "DEFER", "SPLIT"}

InitialFormData ==
    [title |-> "", description |-> "", story_points |-> 5,
     priority |-> "Medium", type |-> "Task"]

\* const type = recommendation?.recommendation_type ?? 'DEFER'
CardType(recommendation) ==
    IF recommendation.recommendation_type = "" THEN "DEFER"
    ELSE recommendation.recommendation_type

\* Object.keys(ACTION_META).filter(k => k !== type && k !== 'ACCEPT')
Alternatives(type) == ACTION_META \ {type, "ACCEPT"}

\* const resolvedSpaceId = spaceId || selectedSprint?.space_id || ''
ResolvedSpaceId(prop, sprint) ==
    IF prop # "" THEN prop
    ELSE IF sprint # NoSprint THEN SprintSpace(sprint)
    ELSE ""

\* the `base` object of executeAction
Base(fd, spaceId) ==
    [title |-> fd.title, description |-> fd.description,
     story_points |-> fd.story_points, priority |-> fd.priority,
     type |-> fd.type, space_id |-> spaceId, status |-> "To Do"]

\* an executeAction whose DEFER and SPLIT cases keep the sprint reference
CreatePayloadKeepsSprint(action, sprintId, spaceId, fd) ==
    [title |-> fd.title, description |-> fd.description,
     story_points |-> fd.story_points, priority |-> fd.priority,
     type |-> fd.type, space_id |-> spaceId, status |-> "To Do",
     sprint_id |-> sprintId]

\* the body handed to api.createBacklogItem by each case of executeAction
CreatePayload(action, sprintId, spaceId, fd) ==
    [title |-> Base(fd, spaceId).title,
     description |-> Base(fd, spaceId).description,
     story_points |-> Base(fd, spaceId).story_points,
     priority |-> Base(fd, spaceId).priority,
     type |-> Base(fd, spaceId).type,
     space_id |-> Base(fd, spaceId).space_id,
     status |-> Base(fd, spaceId).status,
     sprint_id |-> IF action \in {"ADD", "ACCEPT", "SWAP"} THEN sprintId
                   ELSE NoSprint]

\* the value executeAction returns; the message is kept as its parts
ExecResult(action, fd, target) ==
    [ok |-> TRUE,
     requiresManual |-> (action = "SPLIT"),
     message |-> [kind   |-> IF action = "ACCEPT" THEN "ADD" ELSE action,
                  title  |-> fd.title,
                  target |-> IF action = "SWAP" /\ target # <<>>
                             THEN target[1].title ELSE ""]]

\* a handleAction that reports every executed action as followed
TakenActionAlwaysFollowed(actionType, type) == "FOLLOWED_RECOMMENDATION"

\* third argument of logFeedback in handleAction
TakenAction(actionType, type) ==
    IF actionType = type THEN "FOLLOWED_RECOMMENDATION"
    ELSE "IGNORED_RECOMMENDATION"

----------------------------------------------------------------------------
(* Initial state.  The store holds one item of 3 points in sprint s1.       *)
(* AgileManagement has just been constructed: no space is selected, so      *)
(* neither Dashboard nor ImpactAnalyzer is mounted and their variables hold *)
(* the useState defaults.                                                   *)
InitialItems ==
    <<[title |-> "T0", description |-> "", story_points |-> 3,
       priority |-> "Low", type |-> "Task", space_id |-> SpaceId,
       status |-> "To Do", sprint_id |-> "s1"]>>

NoCtxReqs == [s \in SprintIds |-> 0]

LoadReq == [kind |-> "load", item |-> 0, sprint |-> NoSprint, live |-> TRUE]

InitMain ==
    /\ items = InitialItems
    /\ logs = <<>>
    /\ unlogged = 0
    /\ selectedSpace = FALSE
    /\ activeTab = "scrums"
    /\ dashLoading = TRUE
    /\ sprints = <<>>
    /\ backlogItems = <<>>
    /\ selectedSprint = NoSprint
    /\ formData = InitialFormData
    /\ analysis = <<>>
    /\ loading = FALSE
    /\ sprintContext = <<>>
    /\ actionResult = <<>>
    /\ executing = FALSE
    /\ done = FALSE
    /\ doneMsg = <<>>
    /\ dashReqs = <<>>
    /\ analyzeReqs = <<>>
    /\ ctxReqs = NoCtxReqs
    /\ actionReqs = <<>>
    /\ feedbackSent = <<>>

----------------------------------------------------------------------------
(* Mounting and unmounting.                                                 *)

\* {!loading && activeTab === 'impact-analyzer' && <ImpactAnalyzer .../>}
IAMounted == selectedSpace /\ activeTab = "impact-analyzer" /\ ~dashLoading

(* The RecommendationCard is unmounted whenever analysis becomes null: its  *)
(* state is gone and the setters of its suspended handleAction are no-ops.  *)
UnmountCard ==
    /\ executing' = FALSE
    /\ done' = FALSE
    /\ doneMsg' = <<>>
    /\ actionReqs' = [i \in 1..Len(actionReqs) |->
                        [actionReqs[i] EXCEPT !.cardLive = FALSE]]

\* loadSprintContext(sprintId): one more getSprintContext call in flight
WithCtxReq(reqs, s) ==
    [reqs EXCEPT ![s] = IF @ < MaxCtxReqs THEN @ + 1 ELSE @]

(* A new ImpactAnalyzer: useState defaults, then the effect selects the     *)
(* first sprint of the prop (no sprint is Active or all are alike here) and *)
(* loads its context.  Calls of earlier instances stay in flight.           *)
MountIA(sprintList) ==
    LET first == IF sprintList = <<>> THEN NoSprint ELSE sprintList[1] IN
    /\ selectedSprint' = first
    /\ formData' = InitialFormData
    /\ analysis' = <<>>
    /\ loading' = FALSE
    /\ sprintContext' = <<>>
    /\ actionResult' = <<>>
    /\ executing' = FALSE
    /\ done' = FALSE
    /\ doneMsg' = <<>>
    /\ ctxReqs' = IF first = NoSprint THEN NoCtxReqs
                  ELSE WithCtxReq(NoCtxReqs, first)
    /\ UNCHANGED <<analyzeReqs, actionReqs>>

(* ImpactAnalyzer and its card leave the tree: their state is dropped and   *)
(* every later setter or callback of their suspended handlers is a no-op;   *)
(* the calls themselves still reach the store.                              *)
UnmountIA ==
    /\ selectedSprint' = NoSprint
    /\ formData' = InitialFormData
    /\ analysis' = <<>>
    /\ loading' = FALSE
    /\ sprintContext' = <<>>
    /\ actionResult' = <<>>
    /\ executing' = FALSE
    /\ done' = FALSE
    /\ doneMsg' = <<>>
    /\ ctxReqs' = NoCtxReqs
    /\ analyzeReqs' = [i \in 1..Len(analyzeReqs) |->
                         [analyzeReqs[i] EXCEPT !.live = FALSE]]
    /\ actionReqs' = [i \in 1..Len(actionReqs) |->
                        [actionReqs[i] EXCEPT !.cardLive = FALSE,
                                              !.iaLive = FALSE]]

\* what a Dashboard render does to the ImpactAnalyzer subtree
Remount(wasMounted, isMounted, sprintList) ==
    IF ~wasMounted /\ isMounted THEN MountIA(sprintList)
    ELSE IF wasMounted /\ ~isMounted THEN UnmountIA
    ELSE UNCHANGED <<iaVars, cardVars, flightVars>>

----------------------------------------------------------------------------
(* AgileManagement: <SpaceManagement/> or <Dashboard space onBack/> *)

(* onSelectSpace: a new Dashboard is constructed (loading true, tab         *)
(* 'scrums') and its effect calls loadData.                                 *)
OnSelectSpace ==
    /\ ~selectedSpace
    /\ Len(dashReqs) < MaxDashReqs
    /\ selectedSpace' = TRUE
    /\ activeTab' = "scrums"
    /\ dashLoading' = TRUE
    /\ sprints' = <<>>
    /\ backlogItems' = <<>>
    /\ dashReqs' = Append(dashReqs, LoadReq)
    /\ UNCHANGED <<storeVars, iaVars, cardVars, flightVars, obsVars,
                   displayVars, restVars>>

(* onBack: the Dashboard and all below it leave the tree.  A settled        *)
(* loadData of the old Dashboard changes nothing any more; an assign in     *)
(* flight still reaches the store.                                          *)
OrphanDashReqs(reqs) ==
    LET assigns == SelectSeq(reqs, LAMBDA r : r.kind = "assign") IN
    [i \in 1..Len(assigns) |-> [assigns[i] EXCEPT !.live = FALSE]]

OnBack ==
    /\ selectedSpace
    /\ selectedSpace' = FALSE
    /\ activeTab' = "scrums"
    /\ dashLoading' = TRUE
    /\ sprints' = <<>>
    /\ backlogItems' = <<>>
    /\ dashReqs' = OrphanDashReqs(dashReqs)
    /\ Remount(IAMounted, FALSE, <<>>)
    /\ UNCHANGED <<storeVars, obsVars, displayVars, restVars>>

----------------------------------------------------------------------------
(* Dashboard.jsx *)

\* onClick={() => setActiveTab(tab)}
SetActiveTab ==
    \E tab \in Tabs :
        /\ selectedSpace
        /\ tab # activeTab
        /\ activeTab' = tab
        /\ Remount(IAMounted, tab = "impact-analyzer" /\ ~dashLoading, sprints)
        /\ UNCHANGED <<storeVars, selectedSpace, dashLoading, sprints,
                       backlogItems, dashReqs, obsVars, displayVars, restVars>>

\* Promise.all of loadData settles: the three setters, or catch; finally
LoadDataResponds ==
    \E k \in 1..Len(dashReqs), ok \in BOOLEAN :
        /\ dashReqs[k].kind = "load"
        /\ dashReqs' = RemoveAt(dashReqs, k)
        /\ sprints' = IF ok THEN SprintOrder ELSE sprints
        /\ backlogItems' = IF ok THEN items ELSE backlogItems
        /\ dashLoading' = FALSE
        /\ Remount(IAMounted, activeTab = "impact-analyzer", sprints')
        /\ UNCHANGED <<storeVars, selectedSpace, activeTab, obsVars,
                       displayVars, restVars>>

\* unassignedItems, as loaded together with backlogItems
UnassignedItems ==
    {i \in 1..Len(backlogItems) : backlogItems[i].sprint_id = NoSprint}

\* handleAssignToSprint(item.id, e.target.value), up to the await
HandleAssignToSprint ==
    \E i \in UnassignedItems, s \in SprintIds :
        /\ selectedSpace
        /\ activeTab = "scrums"
        /\ ~dashLoading
        /\ \E j \in 1..Len(sprints) : sprints[j] = s
        /\ Len(dashReqs) < MaxDashReqs
        /\ dashReqs' = Append(dashReqs,
                              [kind |-> "assign", item |-> i, sprint |-> s,
                               live |-> TRUE])
        /\ UNCHANGED <<storeVars, dashVars, iaVars, cardVars, flightVars,
                       obsVars, displayVars, restVars>>

\* PUT /backlog/{id}: the item keeps its identity, only its sprint changes
UpdateItem(its, id, sprintId) == [its EXCEPT ![id].sprint_id = sprintId]

(* handleAssignToSprint after the await: loadData() on success, alert on    *)
(* error.  The loadData of a Dashboard that has left the tree sets nothing. *)
AssignResponds ==
    \E k \in 1..Len(dashReqs), ok \in BOOLEAN :
      LET r == dashReqs[k] IN
        /\ r.kind = "assign"
        /\ items' = IF ok THEN UpdateItem(items, r.item, r.sprint) ELSE items
        /\ IF ok /\ r.live
           THEN /\ dashReqs' = [dashReqs EXCEPT ![k] = LoadReq]
                /\ dashLoading' = TRUE
                /\ Remount(IAMounted, FALSE, sprints)
           ELSE /\ dashReqs' = RemoveAt(dashReqs, k)
                /\ UNCHANGED <<dashLoading, iaVars, cardVars, flightVars>>
        /\ UNCHANGED <<logs, unlogged, selectedSpace, activeTab, sprints,
                       backlogItems, obsVars, displayVars, restVars>>

----------------------------------------------------------------------------
(* ImpactAnalyzer.jsx: the form.  The onChange handlers of the inputs are   *)
(* each setFormData({ ...formData, <field>: <value> }); story_points goes   *)
(* through parseInt(e.target.value) || 5.                                   *)
EditField ==
    /\ IAMounted
    /\ \E f \in DOMAIN FieldValues : \E v \in FieldValues[f] :
          /\ v # formData[f]
          /\ formData' = [formData EXCEPT ![f] = v]
    /\ UNCHANGED <<storeVars, dashVars, selectedSprint, analysis, loading,
                   sprintContext, actionResult, cardVars, dashReqs, flightVars,
                   obsVars, displayVars, restVars>>

\* handleSprintChange: the sprint <select>, "" is the 'Select Sprint...' option
HandleSprintChange ==
    \E s \in SprintIds \cup {NoSprint} :
        /\ IAMounted
        /\ s # selectedSprint
        /\ s # NoSprint => \E j \in 1..Len(sprints) : sprints[j] = s
        /\ selectedSprint' = s
        /\ analysis' = <<>>
        /\ actionResult' = <<>>
        /\ UnmountCard
        /\ ctxReqs' = IF s # NoSprint THEN WithCtxReq(ctxReqs, s) ELSE ctxReqs
        /\ UNCHANGED <<storeVars, dashVars, formData, loading, sprintContext,
                       dashReqs, analyzeReqs, obsVars, displayVars, restVars>>

\* GET /impact/sprints/{id}/context: computed from the items of the sprint
SprintContextOf(its, s) ==
    [sprint_id |-> s, current_load |-> CurrentLoad(its, s),
     item_count |-> ItemCount(its, s)]

\* loadSprintContext after the await: setSprintContext(ctx), or null on error
CtxResponds ==
    \E s \in SprintIds, ok \in BOOLEAN :
        /\ ctxReqs[s] > 0
        /\ ctxReqs' = [ctxReqs EXCEPT ![s] = @ - 1]
        /\ sprintContext' = IF ok THEN <<SprintContextOf(items, s)>> ELSE <<>>
        /\ UNCHANGED <<storeVars, dashVars, selectedSprint, formData, analysis,
                       loading, actionResult, cardVars, dashReqs, analyzeReqs,
                       actionReqs, obsVars, displayVars, restVars>>

----------------------------------------------------------------------------
(* handleAnalyze, up to the await.  The button is disabled while loading or *)
(* without a sprint; an empty title returns after an alert.                 *)
HandleAnalyze ==
    /\ IAMounted
    /\ ~loading
    /\ selectedSprint # NoSprint
    /\ formData.title # ""
    /\ Len(logs) + unlogged + Len(analyzeReqs) < MaxAnalyses
    /\ loading' = TRUE
    /\ analysis' = <<>>
    /\ actionResult' = <<>>
    /\ UnmountCard
    /\ analyzeReqs' = Append(analyzeReqs,
                             [sprint_id |-> selectedSprint,
                              candidate |-> formData,
                              live      |-> TRUE])
    /\ UNCHANGED <<storeVars, dashVars, selectedSprint, formData,
                   sprintContext, dashReqs, ctxReqs, obsVars,
                   displayVars, restVars>>

(* POST /impact/analyze: one of the four recommendation types; a swap       *)
(* target, taken from the items of the analysed sprint, only with SWAP.     *)
AnalyzeOutcomes(its, req) ==
    {[recommendation_type |-> t, target_ticket |-> tgt] :
        t \in RecTypes \ {"SWAP"}, tgt \in {<<>>}}
    \cup
    {[recommendation_type |-> "SWAP",
      target_ticket |-> <<[id |-> i, title |-> its[i].title,
                           story_points |-> its[i].story_points]>>] :
        i \in SprintItems(its, req.sprint_id)}

\* the pending record the analysis log store keeps for an analysis
NewLog(req, rec) ==
    [sprint_id |-> req.sprint_id, candidate |-> req.candidate,
     recommendation_type |-> rec.recommendation_type,
     taken_action |-> "null", accepted |-> "null"]

\* a handleAnalyze without its finally block: a failed call leaves loading
AnalyzeRespondsNoFinally ==
    \E k \in 1..Len(analyzeReqs) :
      LET req == analyzeReqs[k] IN
        /\ analyzeReqs' = RemoveAt(analyzeReqs, k)
        /\ \/ \E rec \in AnalyzeOutcomes(items, req), logged \in BOOLEAN :
                /\ logs' = IF logged THEN Append(logs, NewLog(req, rec))
                           ELSE logs
                /\ unlogged' = IF logged THEN unlogged ELSE unlogged + 1
                /\ IF req.live
                   THEN /\ analysis' =
                              <<[recommendation |-> rec,
                                 log_id |-> IF logged THEN Len(logs) + 1
                                            ELSE 0]>>
                        /\ loading' = FALSE
                   ELSE UNCHANGED <<analysis, loading>>
           \/ UNCHANGED <<logs, unlogged, analysis, loading>>
        /\ UNCHANGED <<items, dashVars, selectedSprint, formData,
                       sprintContext, actionResult, cardVars, dashReqs,
                       ctxReqs, actionReqs, obsVars, displayVars, restVars>>

(* handleAnalyze after the await.  The response carries the log id of the   *)
(* record just written, or none when the log store was unavailable; or the  *)
(* call throws: catch alerts and finally resets loading.                    *)
AnalyzeResponds ==
    \E k \in 1..Len(analyzeReqs) :
      LET req == analyzeReqs[k] IN
        /\ analyzeReqs' = RemoveAt(analyzeReqs, k)
        /\ \/ \E rec \in AnalyzeOutcomes(items, req), logged \in BOOLEAN :
                /\ logs' = IF logged THEN Append(logs, NewLog(req, rec))
                           ELSE logs
                /\ unlogged' = IF logged THEN unlogged ELSE unlogged + 1
                /\ IF req.live
                   THEN /\ analysis' =
                              <<[recommendation |-> rec,
                                 log_id |-> IF logged THEN Len(logs) + 1
                                            ELSE 0]>>
                        /\ loading' = FALSE
                   ELSE UNCHANGED <<analysis, loading>>
           \/ /\ UNCHANGED <<logs, unlogged, analysis>>
              /\ loading' = IF req.live THEN FALSE ELSE loading
        /\ UNCHANGED <<items, dashVars, selectedSprint, formData,
                       sprintContext, actionResult, cardVars, dashReqs,
                       ctxReqs, actionReqs, obsVars, displayVars, restVars>>

\* "Analyze Another Ticket" button, rendered once actionResult is set
ResetForm ==
    /\ IAMounted
    /\ analysis # <<>>
    /\ actionResult # <<>>
    /\ analysis' = <<>>
    /\ actionResult' = <<>>
    /\ formData' = InitialFormData
    /\ UnmountCard
    /\ UNCHANGED <<storeVars, dashVars, selectedSprint, loading,
                   sprintContext, dashReqs, analyzeReqs, ctxReqs, obsVars,
                   displayVars, restVars>>

----------------------------------------------------------------------------
(* RecommendationCard.  It is rendered while analysis holds a result; every *)
(* result of the analyze endpoint carries a display and a recommendation.   *)
(*                                                                          *)
(* RecommendationCard.handleAction.  Each run of the handler is a record in *)
(* actionReqs holding what its closure captured at the click (action, type, *)
(* logId, sprintId, spaceId, formData, target), the await it is suspended   *)
(* at (pc), and whether the card and the ImpactAnalyzer it belongs to are   *)
(* still mounted.  calls, created and pre are history: the backlog calls    *)
(* that have succeeded, the id of the created item, and the item count and  *)
(* load of every sprint when the button was clicked.                        *)

\* the buttons rendered while the card is not done
CardButtons ==
    IF analysis = <<>> \/ done THEN {}
    ELSE {CardType(analysis[1].recommendation)}
         \cup Alternatives(CardType(analysis[1].recommendation))

\* executeAction throws before its first call: SWAP without a target id
\* (!target?.id) or an action that is no case of the switch
Throws(actionType) ==
    \/ actionType = "SWAP" /\ analysis[1].recommendation.target_ticket = <<>>
    \/ actionType \notin ACTION_META

NewActionReq(actionType) ==
    LET recommendation == analysis[1].recommendation IN
    [action   |-> actionType,
     type     |-> CardType(recommendation),
     logId    |-> analysis[1].log_id,
     sprintId |-> selectedSprint,
     spaceId  |-> ResolvedSpaceId(SpaceIdProp, selectedSprint),
     formData |-> formData,
     target   |-> recommendation.target_ticket,
     pc       |-> IF Throws(actionType) THEN "throw"
                  ELSE IF actionType = "SWAP" THEN "update" ELSE "create",
     calls    |-> <<>>,
     created  |-> 0,
     pre      |-> [s \in SprintIds |-> SprintContextOf(items, s)],
     cardLive |-> TRUE,
     iaLive   |-> TRUE]

\* a card whose buttons stay enabled while an action is executing
HandleActionWhileExecuting ==
    \E actionType \in CardButtons :
        /\ IAMounted
        /\ ~Throws(actionType)
        /\ Len(actionReqs) < MaxInflight
        /\ Len(items) < MaxItems
        /\ executing' = TRUE
        /\ actionReqs' = Append(actionReqs, NewActionReq(actionType))
        /\ UNCHANGED <<storeVars, dashVars, iaVars, done, doneMsg, dashReqs,
                       analyzeReqs, ctxReqs, obsVars, displayVars, restVars>>

(* Click on a button, up to the first await of executeAction.  The buttons  *)
(* are disabled while executing.  SWAP without a target throws before any   *)
(* call and leaves the state as it was.                                     *)
HandleAction ==
    \E actionType \in CardButtons :
        /\ IAMounted
        /\ ~executing
        /\ ~Throws(actionType)
        /\ Len(actionReqs) < MaxInflight
        /\ Len(items) < MaxItems
        /\ executing' = TRUE
        /\ actionReqs' = Append(actionReqs, NewActionReq(actionType))
        /\ UNCHANGED <<storeVars, dashVars, iaVars, done, doneMsg, dashReqs,
                       analyzeReqs, ctxReqs, obsVars, displayVars, restVars>>

(* Click on a button whose action cannot be carried out: setExecuting(true) *)
(* and executeAction, which rejects at once without a call.                 *)
HandleActionThrowing ==
    \E actionType \in CardButtons :
        /\ IAMounted
        /\ ~executing
        /\ Throws(actionType)
        /\ Len(actionReqs) < MaxInflight
        /\ executing' = TRUE
        /\ actionReqs' = Append(actionReqs, NewActionReq(actionType))
        /\ UNCHANGED <<storeVars, dashVars, iaVars, done, doneMsg, dashReqs,
                       analyzeReqs, ctxReqs, obsVars, displayVars, restVars>>

\* catch and finally of handleAction
ActionFailed(k) ==
    /\ actionReqs' = RemoveAt(actionReqs, k)
    /\ executing' = IF actionReqs[k].cardLive THEN FALSE ELSE executing
    /\ UNCHANGED <<iaVars, done, doneMsg, analyzeReqs, ctxReqs, feedbackSent>>

(* The rest of the try block once logFeedback has returned: setDone,        *)
(* setDoneMsg, onActionDone (setActionResult and loadSprintContext of the   *)
(* sprint selected at the click), then finally.                             *)
ActionFinished(k) ==
    LET a      == actionReqs[k]
        result == ExecResult(a.action, a.formData, a.target)
    IN  /\ actionReqs' = RemoveAt(actionReqs, k)
        /\ IF a.cardLive
           THEN /\ done' = TRUE
                /\ doneMsg' = <<result.message>>
                /\ executing' = FALSE
           ELSE UNCHANGED <<executing, done, doneMsg>>
        /\ IF a.iaLive
           THEN /\ actionResult' = <<result>>
                /\ ctxReqs' = IF a.sprintId # NoSprint
                              THEN WithCtxReq(ctxReqs, a.sprintId)
                              ELSE ctxReqs
           ELSE UNCHANGED <<actionResult, ctxReqs>>
        /\ UNCHANGED <<selectedSprint, formData, analysis, loading,
                       sprintContext, analyzeReqs>>

\* a handleAction that marks the card done in its finally block
ThrowSettlesAsDone ==
    \E k \in 1..Len(actionReqs) :
        /\ actionReqs[k].pc = "throw"
        /\ actionReqs' = RemoveAt(actionReqs, k)
        /\ executing' = IF actionReqs[k].cardLive THEN FALSE ELSE executing
        /\ done' = IF actionReqs[k].cardLive THEN TRUE ELSE done
        /\ UNCHANGED <<iaVars, doneMsg, analyzeReqs, ctxReqs, feedbackSent>>
        /\ UNCHANGED <<storeVars, dashVars, dashReqs, displayVars, restVars>>

\* the rejection of executeAction reaches handleAction: catch and finally
ThrowSettles ==
    \E k \in 1..Len(actionReqs) :
        /\ actionReqs[k].pc = "throw"
        /\ ActionFailed(k)
        /\ UNCHANGED <<storeVars, dashVars, dashReqs, displayVars, restVars>>

\* SWAP: api.updateBacklogItem(target.id, { sprint_id: null }) settles
UpdateResponds ==
    \E k \in 1..Len(actionReqs), ok \in BOOLEAN :
      LET a == actionReqs[k] IN
        /\ a.pc = "update"
        /\ IF ok
           THEN /\ items' = UpdateItem(items, a.target[1].id, NoSprint)
                /\ actionReqs' = [actionReqs EXCEPT
                                    ![k].pc = "create",
                                    ![k].calls = Append(@, "update")]
                /\ UNCHANGED <<logs, unlogged, iaVars, cardVars, analyzeReqs,
                               ctxReqs, obsVars>>
           ELSE /\ ActionFailed(k)
                /\ UNCHANGED storeVars
        /\ UNCHANGED <<dashVars, dashReqs, displayVars, restVars>>

\* POST /backlog/: the store appends the item as sent
CreateItem(its, payload) == Append(its, payload)

\* a handleAction that reports feedback in its finally block, success or not
CreateRespondsFeedbackAlways ==
    \E k \in 1..Len(actionReqs), ok \in BOOLEAN :
      LET a == actionReqs[k] IN
        /\ a.pc = "create"
        /\ a.logId # 0
        /\ ok => Len(items) < MaxItems
        /\ items' = IF ok
                     THEN CreateItem(items, CreatePayload(a.action, a.sprintId,
                                                          a.spaceId, a.formData))
                     ELSE items
        /\ actionReqs' = [actionReqs EXCEPT
                            ![k].pc = "feedback",
                            ![k].calls = IF ok THEN Append(@, "create") ELSE @,
                            ![k].created = IF ok THEN Len(items) + 1 ELSE 0]
        /\ feedbackSent' = Append(feedbackSent,
              [log_id |-> a.logId, accepted |-> TRUE,
               taken_action |-> TakenAction(a.action, a.type),
               action |-> a.action])
        /\ UNCHANGED <<logs, unlogged, iaVars, cardVars, analyzeReqs, ctxReqs,
                       dashVars, dashReqs, displayVars, restVars>>

(* api.createBacklogItem settles.  On success executeAction returns and     *)
(* logFeedback is entered: without a log id it returns at once, otherwise   *)
(* the feedback PATCH is sent.                                              *)
CreateResponds ==
    \E k \in 1..Len(actionReqs), ok \in BOOLEAN :
      LET a == actionReqs[k] IN
        /\ a.pc = "create"
        /\ ok => Len(items) < MaxItems
        /\ IF ok
           THEN /\ items' = CreateItem(items,
                     CreatePayload(a.action, a.sprintId, a.spaceId, a.formData))
                /\ UNCHANGED <<logs, unlogged>>
                /\ IF a.logId = 0
                   THEN /\ ActionFinished(k)
                        /\ UNCHANGED obsVars
                   ELSE /\ actionReqs' = [actionReqs EXCEPT
                                            ![k].pc = "feedback",
                                            ![k].calls = Append(@, "create"),
                                            ![k].created = Len(items) + 1]
                        /\ feedbackSent' = Append(feedbackSent,
                              [log_id |-> a.logId, accepted |-> TRUE,
                               taken_action |-> TakenAction(a.action, a.type),
                               action |-> a.action])
                        /\ UNCHANGED <<iaVars, cardVars, analyzeReqs, ctxReqs>>
           ELSE /\ ActionFailed(k)
                /\ UNCHANGED storeVars
        /\ UNCHANGED <<dashVars, dashReqs, displayVars, restVars>>

\* a store that flips the acceptance it already holds instead of writing
\* the one it is told
PatchLogToggling(lgs, logId, accepted, takenAction) ==
    [lgs EXCEPT ![logId].accepted =
                    IF accepted /\ lgs[logId].accepted # "true"
                    THEN "true" ELSE "false",
                ![logId].taken_action = takenAction]

\* PATCH /impact/logs/{log_id}/feedback: the log store writes what it is told
PatchLog(lgs, logId, accepted, takenAction) ==
    [lgs EXCEPT ![logId].accepted = IF accepted THEN "true" ELSE "false",
                ![logId].taken_action = takenAction]

\* a logFeedback without its try/catch: a failed feedback call fails the action
FeedbackRespondsNoCatch ==
    \E k \in 1..Len(actionReqs), ok \in BOOLEAN :
      LET a == actionReqs[k] IN
        /\ a.pc = "feedback"
        /\ IF ok
           THEN /\ logs' = IF a.logId \in 1..Len(logs)
                           THEN PatchLog(logs, a.logId, TRUE,
                                         TakenAction(a.action, a.type))
                           ELSE logs
                /\ ActionFinished(k)
                /\ UNCHANGED obsVars
           ELSE /\ ActionFailed(k)
                /\ UNCHANGED logs
        /\ UNCHANGED <<items, unlogged, dashVars, dashReqs,
                       displayVars, restVars>>

\* api.recordImpactFeedback settles; logFeedback swallows the error
FeedbackResponds ==
    \E k \in 1..Len(actionReqs), ok \in BOOLEAN :
      LET a == actionReqs[k] IN
        /\ a.pc = "feedback"
        /\ logs' = IF ok /\ a.logId \in 1..Len(logs)
                   THEN PatchLog(logs, a.logId, TRUE,
                                 TakenAction(a.action, a.type))
                   ELSE logs
        /\ ActionFinished(k)
        /\ UNCHANGED <<items, unlogged, dashVars, dashReqs, obsVars,
                       displayVars, restVars>>

----------------------------------------------------------------------------
(* ImpactDashboard.jsx and the metric cards of ImpactAnalyzer.jsx.  The     *)
(* display object maps each card key to a metric or to nothing.             *)
STATUS_TOKENS == {"safe", "warning", "critical"}
CARD_KEYS     == <<"effort", "schedule", "productivity", "quality">>
CardKeySet    == {CARD_KEYS[i] : i \in 1..Len(CARD_KEYS)}

\* the metrics a display can carry for one key
MetricValues ==
    {<<>>} \cup {<<[label |-> "from-model", value |-> "from-model",
                    status |-> st, sub_text |-> "from-model"]>> :
                 st \in STATUS_TOKENS}

\* const metrics = CARD_KEYS.map(key => ...)
Metrics(d) ==
    [i \in 1..Len(CARD_KEYS) |->
        IF d[CARD_KEYS[i]] = <<>>
        THEN [metricKey |-> CARD_KEYS[i], label |-> "Data unavailable",
              value |-> "-", status |-> "warning",
              sub_text |-> "This metric was not returned by the ML model."]
        ELSE [metricKey |-> CARD_KEYS[i],
              label     |-> d[CARD_KEYS[i]][1].label,
              value     |-> d[CARD_KEYS[i]][1].value,
              status    |-> d[CARD_KEYS[i]][1].status,
              sub_text  |-> d[CARD_KEYS[i]][1].sub_text]]

\* metrics.filter(m => m.status === status).length
StatusCount(metrics, status) ==
    Cardinality({i \in 1..Len(metrics) : metrics[i].status = status})

\* a banner that needs three warnings to leave LOW RISK
OverallRiskBannerThreeWarnings(metrics) ==
    IF StatusCount(metrics, "critical") >= 2 THEN "CRITICAL RISK"
    ELSE IF StatusCount(metrics, "critical") = 1
            \/ StatusCount(metrics, "warning") >= 3 THEN "ELEVATED RISK"
    ELSE "LOW RISK"

\* the level OverallRiskBanner shows
OverallRiskBanner(metrics) ==
    IF StatusCount(metrics, "critical") >= 2 THEN "CRITICAL RISK"
    ELSE IF StatusCount(metrics, "critical") = 1
            \/ StatusCount(metrics, "warning") >= 2 THEN "ELEVATED RISK"
    ELSE "LOW RISK"

\* ImpactAnalyzer: const m = analysis.display[key]; if (!m) return null
AnalyzerCards(d) ==
    [key \in CardKeySet |->
        IF d[key] = <<>> THEN <<>>
        ELSE <<[value |-> d[key][1].value, status |-> d[key][1].status,
                label |-> d[key][1].label, sub_text |-> d[key][1].sub_text]>>]

\* ImpactDashboard({ display }): nothing but a placeholder without display
RenderImpactDashboard ==
    /\ display # <<>>
    /\ dashboardMetrics' = <<Metrics(display[1])>>
    /\ banner' = <<OverallRiskBanner(Metrics(display[1]))>>
    /\ UNCHANGED <<storeVars, dashVars, iaVars, cardVars, dashReqs,
                   flightVars, obsVars, display, analyzerCards,
                   restVars>>

\* {analysis?.display && ( ... metric cards ... )}
RenderAnalyzerCards ==
    /\ display # <<>>
    /\ analyzerCards' = <<AnalyzerCards(display[1])>>
    /\ UNCHANGED <<storeVars, dashVars, iaVars, cardVars, dashReqs,
                   flightVars, obsVars, display, dashboardMetrics, banner,
                   restVars>>

NothingRendered ==
    /\ dashboardMetrics = <<>>
    /\ banner = <<>>
    /\ analyzerCards = <<>>

\* the log store on its own: no patch sent, none answered
LogStoreIdle ==
    /\ patchReqs = <<>>
    /\ patchResult = <<>>

\* the engine on its own: not called
EngineIdle ==
    /\ engineIn = <<>>
    /\ engineOut = <<>>

\* HistoryTable not mounted, no dated log
HistoryIdle ==
    /\ histStore = <<>>
    /\ histReqs = <<>>
    /\ histReturned = <<>>
    /\ hLogs = <<>>
    /\ hLoading = FALSE
    /\ hError = FALSE

\* no FinishSprintModal
NoFinishModal ==
    /\ finishingSprint = <<>>
    /\ moveOption = "backlog"
    /\ targetSprintId = ""
    /\ finishLoading = FALSE
    /\ incompleteItems = FALSE

\* the sprints as planned, nothing loaded, nothing asked
LifeIdle ==
    /\ sprintDocs = [id \in SprintIds |-> [status |-> "Planned",
                                           name   |-> "planned"]]
    /\ boardItem = [sprint_id |-> NoSprint, status |-> "To Do"]
    /\ shownSprints = <<>>
    /\ sprintsLoading = TRUE
    /\ NoFinishModal
    /\ sprintReqs = <<>>

\* both forms as constructed, no item
PointsIdle ==
    /\ iaStoryPoints = 5
    /\ iaAnalysed = "none"
    /\ modalItem = <<>>
    /\ modalStoryPoints = 5
    /\ pointItems = <<>>

\* a sprint without dates or points, nothing asked or rendered
DatesIdle ==
    /\ calSprint = [start_date |-> <<>>, end_date |-> <<>>, total_points |-> 0]
    /\ calNow = 0
    /\ burndownOut = <<>>
    /\ daysCell = <<>>

\* no call made
ApiIdle ==
    /\ apiFlight = <<>>
    /\ apiOutcome = <<>>

RestIdle ==
    /\ LogStoreIdle
    /\ EngineIdle
    /\ HistoryIdle
    /\ LifeIdle
    /\ PointsIdle
    /\ DatesIdle
    /\ ApiIdle

----------------------------------------------------------------------------
(* Specifications *)

\* the client and the store; the rendering of metrics is left out
Init ==
    /\ InitMain
    /\ display = <<>>
    /\ NothingRendered
    /\ RestIdle

Next ==
    \/ OnSelectSpace
    \/ OnBack
    \/ SetActiveTab
    \/ LoadDataResponds
    \/ HandleAssignToSprint
    \/ AssignResponds
    \/ EditField
    \/ HandleSprintChange
    \/ CtxResponds
    \/ HandleAnalyze
    \/ AnalyzeResponds
    \/ ResetForm
    \/ HandleAction
    \/ UpdateResponds
    \/ CreateResponds
    \/ FeedbackResponds

Spec == Init /\ [][Next]_vars

\* the rendering of one analysis result, for every display the keys allow
InitDisplay ==
    /\ InitMain
    /\ display \in {<<>>} \cup {<<d>> : d \in [CardKeySet -> MetricValues]}
    /\ NothingRendered
    /\ RestIdle

NextDisplay ==
    \/ RenderImpactDashboard
    \/ RenderAnalyzerCards

SpecDisplay == InitDisplay /\ [][NextDisplay]_vars

\* a recommendation type the client has no action for
UnknownType == "ESCALATE"

\* the analyze request whose answer the card shows
CardRequest ==
    [sprint_id |-> "s1",
     candidate |-> [InitialFormData EXCEPT !.title = "A"],
     live      |-> TRUE]

\* the recommendations an analysis can carry to the card
CardOutcomes ==
    AnalyzeOutcomes(InitialItems, CardRequest)
    \cup {[recommendation_type |-> UnknownType, target_ticket |-> <<>>]}

(* The recommendation card on its own: ImpactAnalyzer is mounted with the   *)
(* first sprint selected and its context loaded, the title is typed and an  *)
(* analysis has been answered, with or without a log id.                    *)
InitCard ==
    /\ items = InitialItems
    /\ unlogged \in {0, 1}
    /\ \E rec \in CardOutcomes :
          /\ logs = IF unlogged = 0 THEN <<NewLog(CardRequest, rec)>> ELSE <<>>
          /\ analysis = <<[recommendation |-> rec,
                           log_id |-> IF unlogged = 0 THEN 1 ELSE 0]>>
    /\ selectedSpace = TRUE
    /\ activeTab = "impact-analyzer"
    /\ dashLoading = FALSE
    /\ sprints = SprintOrder
    /\ backlogItems = InitialItems
    /\ selectedSprint = "s1"
    /\ formData = CardRequest.candidate
    /\ loading = FALSE
    /\ sprintContext = <<SprintContextOf(InitialItems, "s1")>>
    /\ actionResult = <<>>
    /\ executing = FALSE
    /\ done = FALSE
    /\ doneMsg = <<>>
    /\ dashReqs = <<>>
    /\ analyzeReqs = <<>>
    /\ ctxReqs = NoCtxReqs
    /\ actionReqs = <<>>
    /\ feedbackSent = <<>>
    /\ display = <<>>
    /\ NothingRendered
    /\ RestIdle

NextCard ==
    \/ HandleAction
    \/ HandleActionThrowing
    \/ ThrowSettles
    \/ UpdateResponds
    \/ CreateResponds
    \/ FeedbackResponds
    \/ CtxResponds
    \/ HandleSprintChange

SpecCard == InitCard /\ [][NextCard]_vars

(* ImpactAnalyzer from the moment it is mounted with the first sprint       *)
(* selected and the title typed, every call it has sent being answered or   *)
(* failed in the end.                                                       *)
InitBusy ==
    /\ items = InitialItems
    /\ logs = <<>>
    /\ unlogged = 0
    /\ selectedSpace = TRUE
    /\ activeTab = "impact-analyzer"
    /\ dashLoading = FALSE
    /\ sprints = SprintOrder
    /\ backlogItems = InitialItems
    /\ selectedSprint = "s1"
    /\ formData = CardRequest.candidate
    /\ analysis = <<>>
    /\ loading = FALSE
    /\ sprintContext = <<>>
    /\ actionResult = <<>>
    /\ executing = FALSE
    /\ done = FALSE
    /\ doneMsg = <<>>
    /\ dashReqs = <<>>
    /\ analyzeReqs = <<>>
    /\ ctxReqs = WithCtxReq(NoCtxReqs, "s1")
    /\ actionReqs = <<>>
    /\ feedbackSent = <<>>
    /\ display = <<>>
    /\ NothingRendered
    /\ RestIdle

NextBusy ==
    \/ HandleSprintChange
    \/ CtxResponds
    \/ HandleAnalyze
    \/ AnalyzeResponds
    \/ ResetForm
    \/ HandleAction
    \/ HandleActionThrowing
    \/ ThrowSettles
    \/ UpdateResponds
    \/ CreateResponds
    \/ FeedbackResponds

\* every call returns or fails in the end
SpecBusy ==
    /\ InitBusy
    /\ [][NextBusy]_vars
    /\ WF_vars(CtxResponds)
    /\ WF_vars(AnalyzeResponds)
    /\ WF_vars(ThrowSettles)
    /\ WF_vars(UpdateResponds)
    /\ WF_vars(CreateResponds)
    /\ WF_vars(FeedbackResponds)

----------------------------------------------------------------------------
(* Properties *)

\* C1: every feedback request carries FOLLOWED_RECOMMENDATION exactly when
\* the executed action is the recommendation_type recorded under its log id,
\* and IGNORED_RECOMMENDATION in every other case.
C1_TakenActionMatchesRecommendation ==
    \A i \in 1..Len(feedbackSent) :
      LET e == feedbackSent[i] IN
        /\ e.log_id \in 1..Len(logs)
        /\ e.taken_action =
             IF e.action = logs[e.log_id].recommendation_type
             THEN "FOLLOWED_RECOMMENDATION"
             ELSE "IGNORED_RECOMMENDATION"
        /\ logs[e.log_id].taken_action \in {"null", e.taken_action}

\* a manually chosen alternative has been executed and reported as ignored
C1_Witness ==
    \E i \in 1..Len(feedbackSent) :
        /\ feedbackSent[i].action # logs[feedbackSent[i].log_id].recommendation_type
        /\ feedbackSent[i].taken_action = "IGNORED_RECOMMENDATION"
        /\ logs[feedbackSent[i].log_id].taken_action = "IGNORED_RECOMMENDATION"

\* run k of handleAction leaves logFeedback in this step: the feedback call
\* settled, or there was no log id to report to
FeedbackSettles(k) ==
    /\ actionReqs[k].pc = "feedback"
    /\ actionReqs' = RemoveAt(actionReqs, k)

NoLogIdCreated(k) ==
    /\ actionReqs[k].pc = "create"
    /\ actionReqs[k].logId = 0
    /\ Len(items') = Len(items) + 1
    /\ actionReqs' = RemoveAt(actionReqs, k)

\* C2: once the backlog calls of an action have succeeded, the mounted card
\* becomes done with the action's success message, onActionDone runs and no
\* item is changed back, whether the feedback call succeeds, fails or is
\* skipped for want of a log id.
C2_FeedbackNeverBlocksAction ==
    [][\A k \in 1..Len(actionReqs) :
         LET a      == actionReqs[k]
             result == ExecResult(a.action, a.formData, a.target)
         IN  (FeedbackSettles(k) \/ NoLogIdCreated(k)) =>
               /\ SubSeq(items', 1, Len(items)) = items
               /\ FeedbackSettles(k) => items' = items
               /\ a.cardLive =>
                    done' /\ doneMsg' = <<result.message>> /\ ~executing'
               /\ a.iaLive => actionResult' = <<result>>]_vars

\* the card is done although the feedback sent for its log was never written
C2_Witness ==
    /\ done
    /\ actionResult # <<>>
    /\ actionReqs = <<>>
    /\ \E i \in 1..Len(feedbackSent) :
          logs[feedbackSent[i].log_id].taken_action = "null"

\* the backlog calls executeAction makes for an action, in order
RequiredCalls(action) ==
    IF action = "SWAP" THEN <<"update", "create">> ELSE <<"create">>

\* C3: a feedback request is issued only for a log that exists with
\* taken_action null, by a run whose backlog calls have all succeeded; a run
\* that ends before its calls are complete issues none.
C3_FeedbackAfterAnalyzeAndCalls ==
    [][/\ feedbackSent' # feedbackSent =>
            /\ Len(feedbackSent') = Len(feedbackSent) + 1
            /\ LET e == feedbackSent'[Len(feedbackSent')] IN
                 /\ e.log_id \in 1..Len(logs)
                 /\ logs[e.log_id].taken_action = "null"
                 /\ \E k \in 1..Len(actionReqs) :
                      /\ actionReqs[k].pc = "create"
                      /\ actionReqs[k].logId = e.log_id
                      /\ Len(actionReqs') = Len(actionReqs)
                      /\ actionReqs'[k].pc = "feedback"
                      /\ actionReqs'[k].calls = RequiredCalls(e.action)
                      /\ actionReqs'[k].created = Len(items')
                      /\ Len(items') = Len(items) + 1
       /\ \A k \in 1..Len(actionReqs) :
            (/\ actionReqs[k].pc # "feedback"
             /\ actionReqs' = RemoveAt(actionReqs, k))
            => feedbackSent' = feedbackSent]_vars

\* the feedback of a SWAP is in flight: update and create have both succeeded
C3_Witness ==
    \E k \in 1..Len(actionReqs) :
        /\ actionReqs[k].pc = "feedback"
        /\ actionReqs[k].action = "SWAP"
        /\ actionReqs[k].calls = <<"update", "create">>

\* handleAction runs of log l, and feedback requests of l that have settled
RunsOfLog(l) == {k \in 1..Len(actionReqs) : actionReqs[k].logId = l}
FeedbackOfLog(l) == {i \in 1..Len(feedbackSent) : feedbackSent[i].log_id = l}
SettledOfLog(l) ==
    Cardinality(FeedbackOfLog(l))
    - Cardinality({k \in RunsOfLog(l) : actionReqs[k].pc = "feedback"})

BannerOfPresent(d) ==
    OverallRiskBanner(SelectSeq(Metrics(d),
                                LAMBDA m : d[m.metricKey] # <<>>))

\* C5: a key absent from the display is shown as unavailable: the metric
\* built for it carries none of the status tiers safe, warning, critical and
\* no label or value of a metric, the banner counts the present keys only,
\* and the metric cards of ImpactAnalyzer show a card for it that says so.
C5_MissingMetricShownUnavailable ==
    /\ dashboardMetrics # <<>> =>
          /\ \A i \in 1..Len(CARD_KEYS) :
                display[1][CARD_KEYS[i]] = <<>> =>
                   dashboardMetrics[1][i].status \notin STATUS_TOKENS
          /\ banner = <<BannerOfPresent(display[1])>>
    /\ analyzerCards # <<>> =>
          \A key \in CardKeySet :
             display[1][key] = <<>> => analyzerCards[1][key] # <<>>

\* how many of the four metrics handed to the banner have the status
Shown(status) ==
    Cardinality({i \in 1..Len(dashboardMetrics[1]) :
                    dashboardMetrics[1][i].status = status})

\* C29: the banner is a total function of the four metric statuses:
\* CRITICAL RISK iff at least two are critical; ELEVATED RISK iff exactly one
\* is critical, or none is and at least two are warning; LOW RISK otherwise,
\* hence only when none is critical and at most one is warning.
C29_BannerByCriticalAndWarningCounts ==
    banner # <<>> =>
        /\ Len(dashboardMetrics[1]) = 4
        /\ banner[1] \in {"CRITICAL RISK", "ELEVATED RISK", "LOW RISK"}
        /\ banner[1] = "CRITICAL RISK" <=> Shown("critical") >= 2
        /\ banner[1] = "ELEVATED RISK" <=>
               \/ Shown("critical") = 1
               \/ Shown("critical") = 0 /\ Shown("warning") >= 2
        /\ banner[1] = "LOW RISK" =>
               Shown("critical") = 0 /\ Shown("warning") <= 1

\* LOW RISK with one metric in warning, ELEVATED RISK being one more away
C29_Witness ==
    /\ banner = <<"LOW RISK">>
    /\ Shown("warning") = 1
    /\ \A key \in CardKeySet : display[1][key] # <<>>

\* C6: the item an action has created has the title, description,
\* story_points, priority and type of the candidate recorded under the
\* action's log id, and status 'To Do'.
C6_CreatedItemIsAnalyzedCandidate ==
    \A k \in 1..Len(actionReqs) :
      LET a == actionReqs[k] IN
        a.pc = "feedback" =>
          LET it == items[a.created]
              c  == logs[a.logId].candidate
          IN  /\ it.title = c.title
              /\ it.description = c.description
              /\ it.story_points = c.story_points
              /\ it.priority = c.priority
              /\ it.type = c.type
              /\ it.status = "To Do"

\* the create call of run k succeeds in this step
CreateSucceeds(k) ==
    /\ actionReqs[k].pc = "create"
    /\ Len(items') = Len(items) + 1
    /\ \/ actionReqs' = RemoveAt(actionReqs, k)
       \/ /\ Len(actionReqs') = Len(actionReqs)
          /\ actionReqs'[k].pc = "feedback"

\* run k returns from handleAction through the end of its try block
RunFinishes(k) == FeedbackSettles(k) \/ NoLogIdCreated(k)

\* C7: the create call of DEFER and of SPLIT adds one item without sprint
\* and leaves every existing item, hence the item_count and current_load of
\* every sprint, as they were; the result handed to onActionDone is flagged
\* requiresManual for SPLIT and for no other action.
C7_DeferSplitLeaveSprintsAlone ==
    [][\A k \in 1..Len(actionReqs) :
         LET a == actionReqs[k] IN
           /\ (CreateSucceeds(k) /\ a.action \in {"DEFER", "SPLIT"}) =>
                 /\ SubSeq(items', 1, Len(items)) = items
                 /\ items'[Len(items')].sprint_id = NoSprint
                 /\ \A s \in SprintIds :
                       SprintContextOf(items', s) = SprintContextOf(items, s)
                 /\ a.calls = <<>>
           /\ (RunFinishes(k) /\ a.iaLive) =>
                 /\ actionResult' # <<>>
                 /\ actionResult'[1].requiresManual <=> a.action = "SPLIT"]_vars

\* a SPLIT has run to its end: one unassigned item more, result flagged
C7_Witness ==
    /\ actionResult # <<>>
    /\ actionResult[1].requiresManual
    /\ Len(items) = Len(InitialItems) + 1
    /\ items[Len(items)].sprint_id = NoSprint
    /\ \A s \in SprintIds :
          SprintContextOf(items, s) = SprintContextOf(InitialItems, s)

\* C8: when the calls of a SWAP have all succeeded, the analysed sprint has
\* as many items as when the button was clicked, its load has changed by the
\* candidate's points minus the target's, and the target, the same item as
\* before, has no sprint.
C8_SwapKeepsCountShiftsLoad ==
    \A k \in 1..Len(actionReqs) :
      LET a == actionReqs[k] IN
        (a.pc = "feedback" /\ a.action = "SWAP") =>
          LET s == logs[a.logId].sprint_id IN
            /\ a.calls = <<"update", "create">>
            /\ items[a.target[1].id].sprint_id = NoSprint
            /\ items[a.target[1].id].title = a.target[1].title
            /\ ItemCount(items, s) = a.pre[s].item_count
            /\ CurrentLoad(items, s) =
                 a.pre[s].current_load + a.formData.story_points
                 - a.target[1].story_points

\* no call is in flight and nothing is loading
Quiescent ==
    /\ dashReqs = <<>>
    /\ analyzeReqs = <<>>
    /\ actionReqs = <<>>
    /\ ctxReqs = NoCtxReqs
    /\ ~loading
    /\ selectedSpace => ~dashLoading

\* C9: once every operation has completed, the points total the Dashboard
\* shows for each sprint and the load of the sprint context ImpactAnalyzer
\* shows are the sums of story_points over the items of that sprint.
C9_ShownLoadsAreCurrent ==
    Quiescent =>
      /\ (selectedSpace /\ activeTab = "scrums") =>
            \A j \in 1..Len(sprints) :
               CurrentLoad(backlogItems, sprints[j])
                 = CurrentLoad(items, sprints[j])
      /\ (IAMounted /\ sprintContext # <<>>) =>
            sprintContext[1].current_load
              = CurrentLoad(items, sprintContext[1].sprint_id)

\* C10: every item an impact action has created has a non-empty space_id,
\* the space of its sprint when it has one.
C10_CreatedItemHasSpace ==
    \A i \in (Len(InitialItems) + 1)..Len(items) :
        /\ items[i].space_id # ""
        /\ items[i].sprint_id # NoSprint =>
              items[i].space_id = SprintSpace(items[i].sprint_id)

\* run k of handleAction fails in this step: a backlog call throws, the
\* store is as it was and the run ends in catch and finally
RunFails(k) ==
    /\ actionReqs[k].pc \in {"update", "create"}
    /\ actionReqs' = RemoveAt(actionReqs, k)
    /\ items' = items

\* C23: an action is all-or-nothing: when an API call of an action fails, no
\* backlog call of that action has succeeded; in particular a SWAP whose
\* create fails has not taken the target out of the sprint.
C23_FailedActionChangedNoItem ==
    [][\A k \in 1..Len(actionReqs) :
         RunFails(k) => actionReqs[k].calls = <<>>]_vars

\* the action of run a cannot be carried out
CannotRun(a) ==
    \/ a.action = "SWAP" /\ a.target = <<>>
    \/ a.action \notin ACTION_META

\* C24: an action that cannot be carried out (SWAP without a target id, an
\* unknown action type) fails before any API call: no backlog call is made
\* for it, and when its error is caught no item has been created or
\* updated, no feedback patch sent, the card is not done and its buttons,
\* the one clicked included, are enabled again.
C24_ImpossibleActionFailsBeforeAnyCall ==
    [][/\ \A k \in 1..Len(actionReqs') :
            CannotRun(actionReqs'[k]) =>
               /\ actionReqs'[k].pc = "throw"
               /\ actionReqs'[k].calls = <<>>
               /\ actionReqs'[k].created = 0
       /\ \A k \in 1..Len(actionReqs) :
            (CannotRun(actionReqs[k])
               /\ actionReqs' = RemoveAt(actionReqs, k)) =>
               /\ items' = items
               /\ logs' = logs
               /\ feedbackSent' = feedbackSent
               /\ actionResult' = actionResult
               /\ actionReqs[k].cardLive =>
                     /\ ~done'
                     /\ ~executing'
                     /\ actionReqs[k].action \in CardButtons']_vars

\* a manually chosen SWAP on a recommendation without target has been
\* clicked and has thrown: no call was made, the catch is still to run
C24_Witness ==
    /\ analysis # <<>>
    /\ analysis[1].recommendation.recommendation_type = "ADD"
    /\ executing
    /\ \E k \in 1..Len(actionReqs) :
          /\ actionReqs[k].action = "SWAP"
          /\ actionReqs[k].target = <<>>
          /\ actionReqs[k].pc = "throw"
          /\ actionReqs[k].cardLive
    /\ items = InitialItems
    /\ feedbackSent = <<>>

\* C25: an action is executed against the sprint for which the displayed
\* analysis was computed: the sprint id handed to executeAction is the
\* sprint_id of the analyze request whose result the card shows (read from
\* the log the analysis wrote, when it wrote one).
C25_ActionOnAnalysedSprint ==
    \A k \in 1..Len(actionReqs) :
        actionReqs[k].logId # 0 =>
            actionReqs[k].sprintId = logs[actionReqs[k].logId].sprint_id

\* C26: once every context request in flight has completed, the context
\* ImpactAnalyzer shows is the one fetched for the sprint that is selected.
C26_ShownContextIsOfSelectedSprint ==
    (IAMounted /\ ctxReqs = NoCtxReqs /\ sprintContext # <<>>) =>
        sprintContext[1].sprint_id = selectedSprint

\* the same while a sprint is selected
C26_ShownContextIsOfSelectedSprintIfAny ==
    (IAMounted /\ ctxReqs = NoCtxReqs /\ sprintContext # <<>>
       /\ selectedSprint # NoSprint) =>
        sprintContext[1].sprint_id = selectedSprint

\* C30: no busy flag stays set forever: every started analysis resets
\* loading in the end and every started action resets executing in the end,
\* on success and on failure; when an action fails, its card is not done
\* and its buttons are enabled again.
C30_BusyFlagsAreReset ==
    /\ loading ~> ~loading
    /\ executing ~> ~executing
    /\ [][\A k \in 1..Len(actionReqs) :
            (actionReqs[k].cardLive
               /\ (RunFails(k) \/ (actionReqs[k].pc = "throw"
                                    /\ actionReqs' = RemoveAt(actionReqs, k)))) =>
               /\ ~done'
               /\ ~executing'
               /\ CardButtons' # {}]_vars

\* an analysis and an action have both run to their end: both flags were
\* set and are reset
C30_Witness ==
    /\ analysis # <<>>
    /\ ~loading
    /\ done
    /\ ~executing
    /\ analyzeReqs = <<>>
    /\ actionReqs = <<>>
    /\ Len(items) = Len(InitialItems) + 1

----------------------------------------------------------------------------
(* AnalysisLogStore on its own: record and patch, called in any order and   *)
(* with any log id, as api.recordImpactFeedback lets any caller do.         *)
MaxStoreLogs == 1   \* logs recorded
MaxPatchReqs == 2   \* patches sent and not yet applied

clientVars == <<items, unlogged, dashVars, iaVars, cardVars, dashReqs,
                flightVars, obsVars, displayVars>>
besidesLogStore == <<clientVars, engineVars, historyVars, lifeVars,
                    pointVars, dateVars, apiVars>>

\* the payloads recordImpactFeedback can carry
FeedbackPayloads ==
    [accepted : BOOLEAN,
     taken_action : {"FOLLOWED_RECOMMENDATION", "IGNORED_RECOMMENDATION"}]

\* a store that creates the log a patch names when it does not hold it
PatchFeedbackUpsert(lgs, logId, payload) ==
    IF logId \in 1..Len(lgs)
    THEN [logs   |-> PatchLog(lgs, logId, payload.accepted,
                              payload.taken_action),
          status |-> "success"]
    ELSE [logs   |-> Append(lgs, [sprint_id |-> NoSprint,
                                  candidate |-> InitialFormData,
                                  recommendation_type |-> "ADD",
                                  taken_action |-> payload.taken_action,
                                  accepted |-> IF payload.accepted
                                               THEN "true" ELSE "false"]),
          status |-> "success"]

\* patch(log_id, {accepted, taken_action}) -> success | fails(NotFound)
PatchFeedback(lgs, logId, payload) ==
    IF logId \in 1..Len(lgs)
    THEN [logs   |-> PatchLog(lgs, logId, payload.accepted,
                              payload.taken_action),
          status |-> "success"]
    ELSE [logs |-> lgs, status |-> "NotFound"]

\* the feedback a log holds, in the shape of a payload
StoredFeedback(lg) ==
    [accepted |-> lg.accepted, taken_action |-> lg.taken_action]

AsStored(payload) ==
    [accepted |-> IF payload.accepted THEN "true" ELSE "false",
     taken_action |-> payload.taken_action]

\* record(log) -> log_id
RecordLog ==
    /\ Len(logs) < MaxStoreLogs
    /\ \E rec \in AnalyzeOutcomes(InitialItems,
                                  [sprint_id |-> SprintOrder[1]]) :
          logs' = Append(logs, NewLog([sprint_id |-> SprintOrder[1],
                                       candidate |-> InitialFormData], rec))
    /\ UNCHANGED <<besidesLogStore, logStoreVars>>

\* recordImpactFeedback(logId, data): the PATCH is sent
SendPatch ==
    \E logId \in 1..(MaxStoreLogs + 1), payload \in FeedbackPayloads :
        /\ Len(patchReqs) < MaxPatchReqs
        /\ patchReqs' = Append(patchReqs,
                               [log_id |-> logId, payload |-> payload])
        /\ UNCHANGED <<besidesLogStore, logs, patchResult>>

(* The store applies one of the patches in flight and answers.  repeated    *)
(* notes that the log already held exactly this feedback.                   *)
ApplyPatch ==
    \E k \in 1..Len(patchReqs) :
      LET r   == patchReqs[k]
          res == PatchFeedback(logs, r.log_id, r.payload)
      IN  /\ patchReqs' = RemoveAt(patchReqs, k)
          /\ logs' = res.logs
          /\ patchResult' =
               <<[log_id |-> r.log_id, status |-> res.status,
                  repeated |-> /\ r.log_id \in 1..Len(logs)
                               /\ StoredFeedback(logs[r.log_id])
                                    = AsStored(r.payload)]>>
          /\ UNCHANGED besidesLogStore

InitLogStore ==
    /\ InitMain
    /\ display = <<>>
    /\ NothingRendered
    /\ RestIdle

NextLogStore ==
    \/ RecordLog
    \/ SendPatch
    \/ ApplyPatch

SpecLogStore == InitLogStore /\ [][NextLogStore]_vars

\* patch k is applied in this step
PatchApplied(k) ==
    /\ k \in 1..Len(patchReqs)
    /\ patchReqs' = RemoveAt(patchReqs, k)

\* C11: applying a patch to a log that already holds the same feedback
\* (a second, sequential or concurrent, patch with the same payload) leaves
\* every log as it is, and applying any patch again to its own result
\* changes nothing.
C11_FeedbackPatchIdempotent ==
    [][\A k \in 1..Len(patchReqs) :
         LET r == patchReqs[k] IN
           (PatchApplied(k) /\ r.log_id \in 1..Len(logs)) =>
              /\ StoredFeedback(logs'[r.log_id]) = AsStored(r.payload)
              /\ PatchFeedback(logs', r.log_id, r.payload).logs = logs'
              /\ StoredFeedback(logs[r.log_id]) = AsStored(r.payload)
                   => logs' = logs]_vars

\* the same patch has been applied a second time, successfully
C11_Witness ==
    /\ patchResult # <<>>
    /\ patchResult[1].status = "success"
    /\ patchResult[1].repeated

\* C12: a patch for a log id that has not been recorded answers NotFound and
\* leaves the logs as they are; no log is created.
C12_PatchOfUnknownLogNotFound ==
    [][\A k \in 1..Len(patchReqs) :
         (PatchApplied(k) /\ patchReqs[k].log_id \notin 1..Len(logs)) =>
            /\ logs' = logs
            /\ patchResult' # <<>>
            /\ patchResult'[1].status = "NotFound"]_vars

\* a patch sent before its log was recorded has been refused; the log,
\* recorded since, is pending
C12_Witness ==
    /\ patchResult # <<>>
    /\ patchResult[1].status = "NotFound"
    /\ patchResult[1].log_id \in 1..Len(logs)
    /\ logs[patchResult[1].log_id].taken_action = "null"

----------------------------------------------------------------------------
(* MetricScorer's schedule metric and RecommendationEngine on their own:    *)
(* pure functions, applied to inputs drawn from bounded sets.               *)
MaxSprintItems == 2   \* items in the sprint the candidate is analysed for

besidesEngine == <<clientVars, logs, logStoreVars, historyVars, lifeVars,
                    pointVars, dateVars, apiVars>>

TeamVelocity   == 20
SplitThreshold == 8    \* the fixed split threshold
MetricStatuses == {"safe", "warning", "critical"}
\* days_remaining with the sprint_progress (percent) of a 14 day sprint
TimesLeft      == {[days_remaining |-> 2,  sprint_progress |-> 86],
                   [days_remaining |-> 7,  sprint_progress |-> 50],
                   [days_remaining |-> 14, sprint_progress |-> 0]}
EnginePoints   == {3, 5, 13, 15}
CandidatePoints == {5, 13}
EnginePriorities == {"Low", "High"}
EngineStatuses == {"To Do", "In Progress", "Done"}

PriorityRank(p) ==
    CASE p = "Low" -> 1 [] p = "Medium" -> 2 [] p = "High" -> 3
      [] p = "Critical" -> 4

\* the stage of a status: work already invested
StageRank(st) ==
    CASE st = "To Do" -> 1 [] st = "In Progress" -> 2 [] st = "In Review" -> 3
      [] st = "Done" -> 4

\* current_load: the story points of all items of the sprint
LoadOf(sprintItems) ==
    SumOver(sprintItems, 1..Len(sprintItems))

(* schedule: critical when projected_load exceeds team_velocity and the     *)
(* remaining capacity, team_velocity * remaining fraction of the sprint,    *)
(* cannot absorb it.  The warning tier decides nothing in the engine.       *)
ScheduleStatus(context, candidate) ==
    LET projected_load == context.current_load + candidate.story_points
    IN  IF /\ projected_load > context.team_velocity
           /\ context.team_velocity * (100 - context.sprint_progress)
                < projected_load * 100
        THEN "critical"
        ELSE "safe"

\* an item that can be taken out of the sprint: not finished
Removable(it) == it.status # "Done"

\* a rule 1 that asks for an item as large as the candidate
QualifiesCandidateSize(it, context, candidate) ==
    /\ Removable(it)
    /\ it.story_points >= candidate.story_points

\* rule 1: a removable item that frees enough for the candidate
Qualifies(it, context, candidate) ==
    /\ Removable(it)
    /\ it.story_points >=
         candidate.story_points - (context.team_velocity - context.current_load)

\* a tie on priority that the creation order does not break
BetterFirstSupplied(a, b) ==
    \/ PriorityRank(a.priority) < PriorityRank(b.priority)
    \/ /\ a.priority = b.priority
       /\ StageRank(a.status) < StageRank(b.status)

\* lowest priority, then earliest status stage, then oldest
Better(a, b) ==
    \/ PriorityRank(a.priority) < PriorityRank(b.priority)
    \/ /\ a.priority = b.priority
       /\ StageRank(a.status) < StageRank(b.status)
    \/ /\ a.priority = b.priority
       /\ a.status = b.status
       /\ a.created < b.created

\* the swap target: one pass over sprintItems, keeping the best so far
RECURSIVE SwapTarget(_, _, _, _)
SwapTarget(sprintItems, context, candidate, best) ==
    IF sprintItems = <<>> THEN best
    ELSE LET it == Head(sprintItems)
             keep == IF /\ Qualifies(it, context, candidate)
                        /\ \/ best = <<>>
                           \/ Better(it, best[1])
                     THEN <<it>> ELSE best
         IN  SwapTarget(Tail(sprintItems), context, candidate, keep)

\* rules 2 and 3 in the other order
RecommendSplitFirst(metrics, context, candidate, sprintItems) ==
    LET target == SwapTarget(sprintItems, context, candidate, <<>>)
    IN  IF metrics.schedule = "critical" /\ target # <<>>
        THEN [recommendation_type |-> "SWAP", target_ticket |-> target]
        ELSE IF /\ metrics.effort = "critical"
                /\ candidate.story_points > SplitThreshold
        THEN [recommendation_type |-> "SPLIT", target_ticket |-> <<>>]
        ELSE IF metrics.schedule = "critical" \/ metrics.quality = "critical"
        THEN [recommendation_type |-> "DEFER", target_ticket |-> <<>>]
        ELSE [recommendation_type |-> "ADD", target_ticket |-> <<>>]

\* recommend(metrics, context, candidate, sprintItems): first match wins
Recommend(metrics, context, candidate, sprintItems) ==
    LET target == SwapTarget(sprintItems, context, candidate, <<>>)
    IN  IF metrics.schedule = "critical" /\ target # <<>>
        THEN [recommendation_type |-> "SWAP", target_ticket |-> target]
        ELSE IF metrics.schedule = "critical" \/ metrics.quality = "critical"
        THEN [recommendation_type |-> "DEFER", target_ticket |-> <<>>]
        ELSE IF /\ metrics.effort = "critical"
                /\ candidate.story_points > SplitThreshold
        THEN [recommendation_type |-> "SPLIT", target_ticket |-> <<>>]
        ELSE [recommendation_type |-> "ADD", target_ticket |-> <<>>]

\* the items a sprint can hold, created in the order of their ids
EngineItems ==
    [created : 1..MaxSprintItems, priority : EnginePriorities,
     status : EngineStatuses, story_points : EnginePoints]

EngineSprints ==
    UNION {{sq \in [1..n -> EngineItems] :
               \A i, j \in 1..n : i # j => sq[i].created # sq[j].created}
           : n \in 0..MaxSprintItems}

\* the inputs of one call: the context and the schedule metric are computed
\* from the sprint's items, effort and quality are whatever the scorer found
EngineInput(sprintItems, timeLeft, candidate, effort, quality) ==
    LET context == [team_velocity   |-> TeamVelocity,
                    current_load    |-> LoadOf(sprintItems),
                    item_count      |-> Len(sprintItems),
                    days_remaining  |-> timeLeft.days_remaining,
                    sprint_progress |-> timeLeft.sprint_progress]
    IN  [metrics     |-> [schedule |-> ScheduleStatus(context, candidate),
                          effort   |-> effort,
                          quality  |-> quality],
         context     |-> context,
         candidate   |-> candidate,
         sprintItems |-> sprintItems]

InitEngine ==
    /\ InitMain
    /\ display = <<>>
    /\ NothingRendered
    /\ LogStoreIdle
    /\ HistoryIdle
    /\ LifeIdle
    /\ PointsIdle
    /\ DatesIdle
    /\ ApiIdle
    /\ \E sprintItems \in EngineSprints, timeLeft \in TimesLeft,
          points \in CandidatePoints,
          effort \in MetricStatuses, quality \in MetricStatuses :
          engineIn = <<EngineInput(sprintItems, timeLeft,
                                   [story_points |-> points],
                                   effort, quality)>>
    /\ engineOut = <<>>

\* the engine is called
CallRecommend ==
    /\ engineOut = <<>>
    /\ engineOut' = <<Recommend(engineIn[1].metrics, engineIn[1].context,
                                engineIn[1].candidate,
                                engineIn[1].sprintItems)>>
    /\ UNCHANGED <<besidesEngine, engineIn>>

\* the same items are supplied in another order
Resupply ==
    \E i \in 1..(Len(engineIn[1].sprintItems) - 1) :
        LET sq == engineIn[1].sprintItems
            swapped == [sq EXCEPT ![i] = sq[i + 1], ![i + 1] = sq[i]]
        IN  /\ engineIn' = <<[engineIn[1] EXCEPT !.sprintItems = swapped]>>
            /\ UNCHANGED <<besidesEngine, engineOut>>

NextEngine ==
    \/ CallRecommend
    \/ Resupply

SpecEngine == InitEngine /\ [][NextEngine]_vars

\* the sprint items of the call that rule 1 accepts
QualifyingItems ==
    {i \in 1..Len(engineIn[1].sprintItems) :
        Qualifies(engineIn[1].sprintItems[i], engineIn[1].context,
                  engineIn[1].candidate)}

\* C13: the type is SWAP iff schedule is critical and a qualifying swap
\* candidate exists; otherwise DEFER iff schedule or quality is critical;
\* otherwise SPLIT iff effort is critical and the candidate's points exceed
\* the split threshold; otherwise ADD.  SPLIT and ADD are never returned
\* when schedule or quality is critical, and the type is one of the four.
C13_TypeByFixedPriority ==
    engineOut # <<>> =>
      LET m     == engineIn[1].metrics
          type  == engineOut[1].recommendation_type
          swap  == m.schedule = "critical" /\ QualifyingItems # {}
          defer == m.schedule = "critical" \/ m.quality = "critical"
          split == /\ m.effort = "critical"
                   /\ engineIn[1].candidate.story_points > SplitThreshold
      IN  /\ type \in {"ADD", "SWAP", "DEFER", "SPLIT"}
          /\ type = "SWAP"  <=> swap
          /\ type = "DEFER" <=> (~swap /\ defer)
          /\ type = "SPLIT" <=> (~swap /\ ~defer /\ split)
          /\ type = "ADD"   <=> (~swap /\ ~defer /\ ~split)
          /\ type \in {"SPLIT", "ADD"} => ~defer

\* DEFER won over SPLIT: quality and effort are both critical for a
\* candidate above the split threshold
C13_Witness ==
    /\ engineOut # <<>>
    /\ engineOut[1].recommendation_type = "DEFER"
    /\ engineIn[1].metrics.schedule # "critical"
    /\ engineIn[1].metrics.quality = "critical"
    /\ engineIn[1].metrics.effort = "critical"
    /\ engineIn[1].candidate.story_points > SplitThreshold

\* team_velocity 20, current_load 18, days_remaining 2, candidate of 5 points
Scenario14 ==
    /\ engineIn[1].context.team_velocity = 20
    /\ engineIn[1].context.current_load = 18
    /\ engineIn[1].context.days_remaining = 2
    /\ engineIn[1].candidate.story_points = 5

C15_TargetIndependentOfOrder ==
    engineOut # <<>> =>
      LET sq == engineIn[1].sprintItems
      IN  /\ engineOut[1] = Recommend(engineIn[1].metrics,
                                      engineIn[1].context,
                                      engineIn[1].candidate, sq)
          /\ engineOut[1].recommendation_type = "SWAP" =>
               \E i \in QualifyingItems :
                  /\ engineOut[1].target_ticket = <<sq[i]>>
                  /\ \A j \in QualifyingItems \ {i} :
                       \/ PriorityRank(sq[i].priority)
                            < PriorityRank(sq[j].priority)
                       \/ /\ sq[i].priority = sq[j].priority
                          /\ StageRank(sq[i].status) < StageRank(sq[j].status)
                       \/ /\ sq[i].priority = sq[j].priority
                          /\ sq[i].status = sq[j].status
                          /\ sq[i].created < sq[j].created

\* two qualifying items tie on priority and stage; the older one is the
\* target although it is supplied second
C15_Witness ==
    /\ engineOut # <<>>
    /\ engineOut[1].recommendation_type = "SWAP"
    /\ QualifyingItems = {1, 2}
    /\ engineIn[1].sprintItems[1].priority = engineIn[1].sprintItems[2].priority
    /\ engineIn[1].sprintItems[1].status = engineIn[1].sprintItems[2].status
    /\ engineOut[1].target_ticket = <<engineIn[1].sprintItems[2]>>

----------------------------------------------------------------------------
(* Analysis history: the store's history(spaceId, limit), the api call and  *)
(* the HistoryTable of the analytics page.                                  *)
MaxHistLogs == 3   \* dated logs the store holds
MaxHistReqs == 2   \* getAnalysisHistory calls in flight

besidesHistory == <<clientVars, logs, logStoreVars, engineVars, lifeVars,
                    pointVars, dateVars, apiVars>>

DefaultLimit == 50
HistSpaces   == {"space1", "space2"}
HistLimits   == {1, 2, DefaultLimit}

\* the newest of a non-empty set of logs
Newest(S) == CHOOSE lg \in S : \A other \in S : other.date <= lg.date

\* the logs of S, newest first, as many as limit allows
RECURSIVE NewestFirst(_, _)
NewestFirst(S, limit) ==
    IF S = {} \/ limit = 0 THEN <<>>
    ELSE <<Newest(S)>> \o NewestFirst(S \ {Newest(S)}, limit - 1)

\* history(spaceId, limit): the logs of the space, newest first, bounded
History(store, spaceId, limit) ==
    NewestFirst({store[i] : i \in {j \in 1..Len(store) :
                                      store[j].space_id = spaceId}}, limit)

\* record(log): the log gets the next id and the date of its recording
RecordDated ==
    /\ Len(histStore) < MaxHistLogs
    /\ \E spaceId \in HistSpaces :
          histStore' = Append(histStore, [log_id   |-> Len(histStore) + 1,
                                          space_id |-> spaceId,
                                          date     |-> Len(histStore) + 1])
    /\ UNCHANGED <<besidesHistory, histReqs, histReturned, hLogs, hLoading,
                   hError>>

\* api.getAnalysisHistory(spaceId, limit) called by some other caller
GetAnalysisHistory ==
    /\ Len(histReqs) < MaxHistReqs
    /\ \E spaceId \in HistSpaces, limit \in HistLimits :
          histReqs' = Append(histReqs, [space_id |-> spaceId,
                                        limit    |-> limit,
                                        table    |-> FALSE])
    /\ UNCHANGED <<besidesHistory, histStore, histReturned, hLogs, hLoading,
                   hError>>

\* HistoryTable.load: Refresh or Try again, offered when not loading
Load ==
    /\ ~hLoading
    /\ Len(histReqs) < MaxHistReqs
    /\ hLoading' = TRUE
    /\ hError' = FALSE
    /\ histReqs' = Append(histReqs, [space_id |-> SpaceId,
                                     limit    |-> DefaultLimit,
                                     table    |-> TRUE])
    /\ UNCHANGED <<besidesHistory, histStore, histReturned, hLogs>>

\* a load whose answer is added to the list shown
HistoryRespondsAppending ==
    \E k \in 1..Len(histReqs), ok \in BOOLEAN :
      LET r   == histReqs[k]
          res == History(histStore, r.space_id, r.limit)
      IN  /\ histReqs' = RemoveAt(histReqs, k)
          /\ histReturned' = IF ok THEN <<[space_id |-> r.space_id,
                                           limit    |-> r.limit,
                                           table    |-> r.table,
                                           history  |-> res]>>
                             ELSE histReturned
          /\ IF r.table
             THEN /\ hLogs' = IF ok THEN hLogs \o res ELSE hLogs
                  /\ hError' = IF ok THEN hError ELSE TRUE
                  /\ hLoading' = FALSE
             ELSE UNCHANGED <<hLogs, hError, hLoading>>
          /\ UNCHANGED <<besidesHistory, histStore>>

(* A call is answered, with the history or with a failure.  For the table:  *)
(* then(setLogs(res.history)), catch(setError), finally(setLoading(false)). *)
HistoryResponds ==
    \E k \in 1..Len(histReqs), ok \in BOOLEAN :
      LET r   == histReqs[k]
          res == History(histStore, r.space_id, r.limit)
      IN  /\ histReqs' = RemoveAt(histReqs, k)
          /\ histReturned' = IF ok THEN <<[space_id |-> r.space_id,
                                           limit    |-> r.limit,
                                           table    |-> r.table,
                                           history  |-> res]>>
                             ELSE histReturned
          /\ IF r.table
             THEN /\ hLogs' = IF ok THEN res ELSE hLogs
                  /\ hError' = IF ok THEN hError ELSE TRUE
                  /\ hLoading' = FALSE
             ELSE UNCHANGED <<hLogs, hError, hLoading>>
          /\ UNCHANGED <<besidesHistory, histStore>>

\* HistoryTable mounted: loading, its first load sent by the effect
InitHistory ==
    /\ InitMain
    /\ display = <<>>
    /\ NothingRendered
    /\ LogStoreIdle
    /\ EngineIdle
    /\ LifeIdle
    /\ PointsIdle
    /\ DatesIdle
    /\ ApiIdle
    /\ histStore = <<>>
    /\ histReqs = <<[space_id |-> SpaceId, limit |-> DefaultLimit,
                     table |-> TRUE]>>
    /\ histReturned = <<>>
    /\ hLogs = <<>>
    /\ hLoading = TRUE
    /\ hError = FALSE

NextHistory ==
    \/ RecordDated
    \/ GetAnalysisHistory
    \/ Load
    \/ HistoryResponds

SpecHistory == InitHistory /\ [][NextHistory]_vars

\* C16: what getAnalysisHistory returns has at most limit records (at most
\* 50 for the table's call), strictly descending dates and only logs of the
\* space asked for; after the table's call is answered the table holds
\* exactly the records returned, in that order, in place of its old list.
C16_HistoryNewestFirstBoundedShownAsReturned ==
    histReturned # <<>> =>
      LET r == histReturned[1]
          h == r.history
      IN  /\ Len(h) <= r.limit
          /\ r.table => Len(h) <= 50
          /\ \A i \in 1..Len(h) : h[i].space_id = r.space_id
          /\ \A i \in 1..(Len(h) - 1) : h[i].date > h[i + 1].date
          /\ r.table => hLogs = h

\* the table was loaded twice and shows two logs of its space, newest
\* first, while the store holds a log of another space
C16_Witness ==
    /\ histReturned # <<>>
    /\ histReturned[1].table
    /\ Len(hLogs) = 2
    /\ Len(histStore) = 3
    /\ ~hLoading /\ ~hError

\* a call with limit 1 returned one log of a space that has two
C16_WitnessLimit ==
    /\ histReturned # <<>>
    /\ histReturned[1].limit = 1
    /\ Len(histReturned[1].history) = 1
    /\ Cardinality({i \in 1..Len(histStore) :
                      histStore[i].space_id = histReturned[1].space_id}) = 2

----------------------------------------------------------------------------
(* Sprint lifecycle: the Dashboard's sprint buttons, FinishSprintModal,     *)
(* SprintModal's edit, the board's drop and the backlog's assign, against   *)
(* the store's start, finish and update of sprints.                         *)
MaxSprintReqs == 2   \* handlers suspended at an await at the same time

besidesLife == <<clientVars, logs, logStoreVars, engineVars, historyVars,
                    pointVars, dateVars, apiVars>>

SprintStatuses == {"Planned", "Active", "Completed"}
BoardStatuses  == {"To Do", "Done"}

\* a start that lets a sprint become Active beside another Active one
StartSprintStoreUnguarded(docs, item, id) ==
    IF docs[id].status = "Planned"
    THEN [docs |-> [docs EXCEPT ![id].status = "Active"], item |-> item,
          ok |-> TRUE]
    ELSE [docs |-> docs, item |-> item, ok |-> FALSE]

\* POST /sprints/{id}/start: a Planned sprint becomes Active, unless the
\* space already has an Active sprint
StartSprintStore(docs, item, id) ==
    IF /\ docs[id].status = "Planned"
       /\ \A other \in SprintIds : docs[other].status # "Active"
    THEN [docs |-> [docs EXCEPT ![id].status = "Active"], item |-> item,
          ok |-> TRUE]
    ELSE [docs |-> docs, item |-> item, ok |-> FALSE]

\* POST /sprints/{id}/finish: an Active sprint becomes Completed and its
\* item, if not Done, goes where move_incomplete_to says
FinishSprintStore(docs, item, id, moveTo) ==
    IF docs[id].status = "Active"
    THEN [docs |-> [docs EXCEPT ![id].status = "Completed"],
          item |-> IF item.sprint_id = id /\ item.status # "Done"
                   THEN [item EXCEPT !.sprint_id =
                            IF moveTo = "backlog" THEN NoSprint ELSE moveTo]
                   ELSE item,
          ok   |-> TRUE]
    ELSE [docs |-> docs, item |-> item, ok |-> FALSE]

\* PUT /sprints/{id} with {name, goal}
UpdateSprintStore(docs, item, id, name) ==
    [docs |-> [docs EXCEPT ![id].name = name], item |-> item, ok |-> TRUE]

\* PATCH /backlog/{id}/status
UpdateItemStatusStore(docs, item, status) ==
    [docs |-> docs, item |-> [item EXCEPT !.status = status], ok |-> TRUE]

\* PUT /backlog/{id} with {sprint_id}
AssignItemStore(docs, item, id) ==
    [docs |-> docs, item |-> [item EXCEPT !.sprint_id = id], ok |-> TRUE]

\* what the store does with the call of a suspended handler
StoreApplies(r) ==
    CASE r.kind = "start"  -> StartSprintStore(sprintDocs, boardItem, r.id)
      [] r.kind = "finish" -> FinishSprintStore(sprintDocs, boardItem, r.id,
                                                r.move_incomplete_to)
      [] r.kind = "update" -> UpdateSprintStore(sprintDocs, boardItem, r.id,
                                                "renamed")
      [] r.kind = "status" -> UpdateItemStatusStore(sprintDocs, boardItem,
                                                    r.status)
      [] r.kind = "assign" -> AssignItemStore(sprintDocs, boardItem, r.id)

SprintReq(kind, id, stage) ==
    [kind |-> kind, id |-> id, stage |-> stage,
     move_incomplete_to |-> "", status |-> "", live |-> TRUE]

\* the sprint list with its buttons is rendered
SprintListShown ==
    /\ ~sprintsLoading
    /\ shownSprints # <<>>
    /\ finishingSprint = <<>>

\* a Start button on every sprint, whatever its status
StartOfferedAlways(id) == SprintListShown

\* sprint.status === 'Planned' && <button Start>
StartOffered(id) ==
    /\ SprintListShown
    /\ shownSprints[1][id] = "Planned"

\* sprint.status === 'Active' && <button Finish>
FinishOffered(id) ==
    /\ SprintListShown
    /\ shownSprints[1][id] = "Active"

\* handleStartSprint(id), up to the await
HandleStartSprint ==
    \E id \in SprintIds :
        /\ StartOffered(id)
        /\ Len(sprintReqs) < MaxSprintReqs
        /\ sprintReqs' = Append(sprintReqs, SprintReq("start", id, "call"))
        /\ UNCHANGED <<besidesLife, sprintDocs, boardItem, shownSprints,
                       sprintsLoading, finishVars>>

\* handleFinishSprint(sprint): the modal opens with its initial state and
\* loads the items of its sprint that are not Done
HandleFinishSprint ==
    \E id \in SprintIds :
        /\ FinishOffered(id)
        /\ finishingSprint' = <<id>>
        /\ moveOption' = "backlog"
        /\ targetSprintId' = ""
        /\ finishLoading' = FALSE
        /\ incompleteItems' = (boardItem.sprint_id = id
                                 /\ boardItem.status # "Done")
        /\ UNCHANGED <<besidesLife, sprintDocs, boardItem, shownSprints,
                       sprintsLoading, sprintReqs>>

\* the sprints prop of the modal: shown as Planned, not the finishing one
ModalSprints ==
    IF finishingSprint = <<>> \/ shownSprints = <<>> THEN {}
    ELSE {id \in SprintIds : /\ shownSprints[1][id] = "Planned"
                             /\ id # finishingSprint[1]}

\* the radio buttons, rendered when there are incomplete items; 'sprint'
\* is rendered when sprints.length > 0
SetMoveOption ==
    \E opt \in {"backlog", "sprint"} :
        /\ finishingSprint # <<>>
        /\ incompleteItems
        /\ opt = "sprint" => ModalSprints # {}
        /\ opt # moveOption
        /\ moveOption' = opt
        /\ UNCHANGED <<besidesLife, sprintDocs, boardItem, shownSprints,
                       sprintsLoading, finishingSprint, targetSprintId,
                       finishLoading, incompleteItems, sprintReqs>>

\* the select, rendered under the 'sprint' radio when it is chosen
SetTargetSprintId ==
    \E t \in {""} \cup ModalSprints :
        /\ finishingSprint # <<>>
        /\ incompleteItems
        /\ moveOption = "sprint"
        /\ ModalSprints # {}
        /\ t # targetSprintId
        /\ targetSprintId' = t
        /\ UNCHANGED <<besidesLife, sprintDocs, boardItem, shownSprints,
                       sprintsLoading, finishingSprint, moveOption,
                       finishLoading, incompleteItems, sprintReqs>>

\* disabled={loading || (moveOption === 'sprint' && !targetSprintId)}
FinishEnabled ==
    /\ finishingSprint # <<>>
    /\ ~finishLoading
    /\ ~(moveOption = "sprint" /\ targetSprintId = "")

\* FinishSprintModal.handleFinish, up to the await
HandleFinish ==
    /\ FinishEnabled
    /\ Len(sprintReqs) < MaxSprintReqs
    /\ finishLoading' = TRUE
    /\ sprintReqs' = Append(sprintReqs,
          [SprintReq("finish", finishingSprint[1], "call")
             EXCEPT !.move_incomplete_to =
                       IF moveOption = "sprint" THEN targetSprintId
                       ELSE "backlog"])
    /\ UNCHANGED <<besidesLife, sprintDocs, boardItem, shownSprints,
                   sprintsLoading, finishingSprint, moveOption,
                   targetSprintId, incompleteItems>>

\* the requests of a modal that has left the tree set nothing in it
Orphaned(reqs) ==
    [k \in 1..Len(reqs) |->
        IF reqs[k].kind = "finish" THEN [reqs[k] EXCEPT !.live = FALSE]
        ELSE reqs[k]]

\* onClose(): the modal leaves the tree, its state is gone
FinishModalCloses ==
    /\ finishingSprint' = <<>>
    /\ moveOption' = "backlog"
    /\ targetSprintId' = ""
    /\ finishLoading' = FALSE
    /\ incompleteItems' = FALSE

\* Cancel: onClose()
CloseFinishModal ==
    /\ finishingSprint # <<>>
    /\ FinishModalCloses
    /\ sprintReqs' = Orphaned(sprintReqs)
    /\ UNCHANGED <<besidesLife, sprintDocs, boardItem, shownSprints,
                   sprintsLoading>>

\* SprintModal.handleSubmit for an existing sprint, up to the await; the
\* modal can be cancelled while the call is out
HandleSubmit ==
    \E id \in SprintIds :
        /\ SprintListShown
        /\ Len(sprintReqs) < MaxSprintReqs
        /\ sprintReqs' = Append(sprintReqs, SprintReq("update", id, "call"))
        /\ UNCHANGED <<besidesLife, sprintDocs, boardItem, shownSprints,
                       sprintsLoading, finishVars>>

\* KanbanBoard.handleDrop, up to the await; the board opens on a sprint
\* shown as Active or Completed
HandleDrop ==
    \E id \in SprintIds, newStatus \in BoardStatuses :
        /\ SprintListShown
        /\ shownSprints[1][id] \in {"Active", "Completed"}
        /\ boardItem.sprint_id = id
        /\ boardItem.status # newStatus
        /\ Len(sprintReqs) < MaxSprintReqs
        /\ sprintReqs' = Append(sprintReqs,
              [SprintReq("status", id, "call") EXCEPT !.status = newStatus])
        /\ UNCHANGED <<besidesLife, sprintDocs, boardItem, shownSprints,
                       sprintsLoading, finishVars>>

\* the backlog's Assign to Sprint select, up to the await: the sprints
\* not shown as Completed
HandleAssignShown ==
    \E id \in SprintIds :
        /\ SprintListShown
        /\ shownSprints[1][id] # "Completed"
        /\ boardItem.sprint_id = NoSprint
        /\ Len(sprintReqs) < MaxSprintReqs
        /\ sprintReqs' = Append(sprintReqs, SprintReq("assign", id, "call"))
        /\ UNCHANGED <<besidesLife, sprintDocs, boardItem, shownSprints,
                       sprintsLoading, finishVars>>

(* The call of a handler is answered.  On success the handler goes on to    *)
(* loadData(), which sets loading; on failure it alerts and ends, the       *)
(* modal's finally clearing its loading.                                    *)
SprintCallResponds ==
    \E k \in 1..Len(sprintReqs), ok \in BOOLEAN :
      LET r   == sprintReqs[k]
          res == StoreApplies(r)
      IN  /\ r.stage = "call"
          /\ IF ok /\ res.ok
             THEN /\ sprintDocs' = res.docs
                  /\ boardItem' = res.item
                  /\ sprintReqs' = [sprintReqs EXCEPT ![k].stage = "load"]
                  /\ sprintsLoading' = TRUE
                  /\ UNCHANGED finishVars
             ELSE /\ sprintReqs' = RemoveAt(sprintReqs, k)
                  /\ finishLoading' = IF r.kind = "finish" /\ r.live
                                      THEN FALSE ELSE finishLoading
                  /\ UNCHANGED <<sprintDocs, boardItem, sprintsLoading,
                                 finishingSprint, moveOption, targetSprintId,
                                 incompleteItems>>
          /\ UNCHANGED <<besidesLife, shownSprints>>

(* loadData() is answered: setSprints on success, the error logged          *)
(* otherwise, loading cleared.  After it the finish handler calls           *)
(* onClose().                                                               *)
SprintLoadResponds ==
    \E k \in 1..Len(sprintReqs), ok \in BOOLEAN :
      LET r == sprintReqs[k]
      IN  /\ r.stage = "load"
          /\ shownSprints' =
               IF ok THEN <<[id \in SprintIds |-> sprintDocs[id].status]>>
               ELSE shownSprints
          /\ sprintsLoading' = FALSE
          /\ IF r.kind = "finish"
             THEN /\ FinishModalCloses
                  /\ sprintReqs' = Orphaned(RemoveAt(sprintReqs, k))
             ELSE /\ sprintReqs' = RemoveAt(sprintReqs, k)
                  /\ UNCHANGED finishVars
          /\ UNCHANGED <<besidesLife, sprintDocs, boardItem>>

\* the Dashboard mounted on a space with its sprints planned: loading, the
\* effect's loadData out
InitLife ==
    /\ InitMain
    /\ display = <<>>
    /\ NothingRendered
    /\ LogStoreIdle
    /\ EngineIdle
    /\ HistoryIdle
    /\ PointsIdle
    /\ DatesIdle
    /\ ApiIdle
    /\ sprintDocs = [id \in SprintIds |-> [status |-> "Planned",
                                           name   |-> "planned"]]
    /\ boardItem = [sprint_id |-> NoSprint, status |-> "To Do"]
    /\ shownSprints = <<>>
    /\ sprintsLoading = TRUE
    /\ NoFinishModal
    /\ sprintReqs = <<SprintReq("load", NoSprint, "load")>>

NextLife ==
    \/ HandleStartSprint
    \/ HandleFinishSprint
    \/ SetMoveOption
    \/ SetTargetSprintId
    \/ HandleFinish
    \/ CloseFinishModal
    \/ HandleSubmit
    \/ HandleDrop
    \/ HandleAssignShown
    \/ SprintCallResponds
    \/ SprintLoadResponds

SpecLife == InitLife /\ [][NextLife]_vars

\* the call of request k is answered with success in this step
CallSucceeds(k) ==
    /\ k \in 1..Len(sprintReqs)
    /\ sprintReqs[k].stage = "call"
    /\ sprintReqs' = [sprintReqs EXCEPT ![k].stage = "load"]

\* a handler sends a call in this step
CallSent ==
    /\ Len(sprintReqs') = Len(sprintReqs) + 1
    /\ sprintReqs'[Len(sprintReqs')].stage = "call"

\* C17: the status of a sprint changes only from Planned to Active, by a
\* start that succeeds, and from Active to Completed, by a finish that
\* succeeds; no edit, drop or assign changes it, and Completed is never
\* left.  A start is sent only for a sprint shown as Planned and the finish
\* modal opens only on a sprint shown as Active.
C17_StatusOnlyByStartAndFinish ==
    [][/\ \A id \in SprintIds :
            sprintDocs'[id].status # sprintDocs[id].status =>
              \E k \in 1..Len(sprintReqs) :
                 /\ CallSucceeds(k)
                 /\ sprintReqs[k].id = id
                 /\ \/ /\ sprintReqs[k].kind = "start"
                       /\ sprintDocs[id].status = "Planned"
                       /\ sprintDocs'[id].status = "Active"
                    \/ /\ sprintReqs[k].kind = "finish"
                       /\ sprintDocs[id].status = "Active"
                       /\ sprintDocs'[id].status = "Completed"
       /\ (CallSent /\ sprintReqs'[Len(sprintReqs')].kind = "start") =>
            /\ shownSprints # <<>>
            /\ shownSprints[1][sprintReqs'[Len(sprintReqs')].id] = "Planned"
       /\ (finishingSprint' # <<>> /\ finishingSprint = <<>>) =>
            /\ shownSprints # <<>>
            /\ shownSprints[1][finishingSprint'[1]] = "Active"]_vars

\* one sprint was started and finished, the next one started; a sprint was
\* renamed and the item assigned on the way
C17_Witness ==
    /\ \E a, b \in SprintIds : /\ sprintDocs[a].status = "Completed"
                               /\ sprintDocs[b].status = "Active"
    /\ \E id \in SprintIds : sprintDocs[id].name = "renamed"
    /\ boardItem.sprint_id # NoSprint

C20_FinishSendsBacklogOrPlannedSprint ==
    [][/\ (CallSent /\ sprintReqs'[Len(sprintReqs')].kind = "finish") =>
            LET r == sprintReqs'[Len(sprintReqs')]
            IN  /\ ~(moveOption = "sprint" /\ targetSprintId = "")
                /\ \/ r.move_incomplete_to = "backlog"
                   \/ /\ r.move_incomplete_to \in SprintIds \ {r.id}
                      /\ sprintDocs[r.move_incomplete_to].status = "Planned"
       /\ \A id \in SprintIds :
            (sprintDocs'[id].status = "Completed"
               /\ sprintDocs[id].status # "Completed") =>
              \E k \in 1..Len(sprintReqs) :
                 /\ CallSucceeds(k)
                 /\ sprintReqs[k].kind = "finish"
                 /\ sprintReqs[k].id = id]_vars

\* the same with Planned read as shown as Planned by the Dashboard
C20_FinishSendsBacklogOrShownPlanned ==
    [][(CallSent /\ sprintReqs'[Len(sprintReqs')].kind = "finish") =>
          LET r == sprintReqs'[Len(sprintReqs')]
          IN  \/ r.move_incomplete_to = "backlog"
              \/ /\ r.move_incomplete_to \in SprintIds \ {r.id}
                 /\ shownSprints[1][r.move_incomplete_to] = "Planned"]_vars

\* C27: no item is placed into a Completed sprint: whenever the sprint
\* reference of the item is set to a sprint, by an assignment from the
\* backlog list or by the move of a finish, that sprint is Planned or Active.
C27_NoItemIntoCompletedSprint ==
    [][(boardItem'.sprint_id # boardItem.sprint_id
          /\ boardItem'.sprint_id # NoSprint) =>
         sprintDocs'[boardItem'.sprint_id].status \in {"Planned", "Active"}]_vars

----------------------------------------------------------------------------
(* Story points: the ImpactAnalyzer form, whose action creates an item, and *)
(* BacklogModal with its AI suggestion, which creates and updates items.    *)
MaxPointItems == 2   \* items the store holds

besidesPoints == <<clientVars, logs, logStoreVars, engineVars, historyVars,
                   lifeVars, dateVars, apiVars>>

NaN == -1   \* parseInt of a text that is no number; no typed text gives it
TypedTexts == {"", "0", "1", "3", "15", "21"}
SuggestedPoints == {2, 8, 20}

\* parseInt(e.target.value)
ParseInt(text) ==
    CASE text = ""   -> NaN
      [] text = "0"  -> 0
      [] text = "1"  -> 1
      [] text = "3"  -> 3
      [] text = "15" -> 15
      [] text = "21" -> 21

\* the store takes a positive integer as story_points
ValidPoints(n) == n # NaN /\ n > 0

\* ImpactAnalyzer: parseInt(e.target.value) || 5
SetImpactStoryPoints ==
    \E text \in TypedTexts :
        /\ iaStoryPoints' = IF ParseInt(text) = NaN \/ ParseInt(text) = 0
                            THEN 5 ELSE ParseInt(text)
        /\ iaStoryPoints' # iaStoryPoints
        /\ UNCHANGED <<besidesPoints, iaAnalysed, modalItem, modalStoryPoints,
                       pointItems>>

\* handleAnalyze, answered: the candidate is analysed if the backend takes it
AnalyzePoints ==
    /\ iaAnalysed = "none"
    /\ ValidPoints(iaStoryPoints)
    /\ iaAnalysed' = "shown"
    /\ UNCHANGED <<besidesPoints, iaStoryPoints, modalItem, modalStoryPoints,
                   pointItems>>

\* an action of the card, answered: createBacklogItem with the form's
\* story_points
ActionCreatesItem ==
    /\ iaAnalysed = "shown"
    /\ Len(pointItems) < MaxPointItems
    /\ ValidPoints(iaStoryPoints)
    /\ pointItems' = Append(pointItems, [story_points |-> iaStoryPoints,
                                         via |-> "impact"])
    /\ iaAnalysed' = "done"
    /\ UNCHANGED <<besidesPoints, iaStoryPoints, modalItem, modalStoryPoints>>

\* "Analyze Another Ticket": the analysis is dropped and the form reset
AnalyzeAnother ==
    /\ iaAnalysed = "done"
    /\ iaAnalysed' = "none"
    /\ iaStoryPoints' = 5
    /\ UNCHANGED <<besidesPoints, modalItem, modalStoryPoints, pointItems>>

\* BacklogModal opens, to create or to edit item i
OpenBacklogModal ==
    \E i \in 0..Len(pointItems) :
        /\ modalItem = <<>>
        /\ modalItem' = <<i>>
        /\ modalStoryPoints' = IF i = 0 THEN 5 ELSE pointItems[i].story_points
        /\ UNCHANGED <<besidesPoints, iaStoryPoints, iaAnalysed, pointItems>>

\* BacklogModal: parseInt(e.target.value)
SetModalStoryPoints ==
    \E text \in TypedTexts :
        /\ modalItem # <<>>
        /\ modalStoryPoints' = ParseInt(text)
        /\ modalStoryPoints' # modalStoryPoints
        /\ UNCHANGED <<besidesPoints, iaStoryPoints, iaAnalysed, modalItem,
                       pointItems>>

\* handleAISuggestion(suggestedPoints)
HandleAISuggestion ==
    \E suggestedPoints \in SuggestedPoints :
        /\ modalItem # <<>>
        /\ modalStoryPoints' = suggestedPoints
        /\ modalStoryPoints' # modalStoryPoints
        /\ UNCHANGED <<besidesPoints, iaStoryPoints, iaAnalysed, modalItem,
                       pointItems>>

\* the form submits when its number input is valid: required, min 3, max 15
SubmitAllowed ==
    /\ modalStoryPoints # NaN
    /\ modalStoryPoints >= 3
    /\ modalStoryPoints <= 15

\* BacklogModal.handleSubmit, answered: create or update, then onClose
HandleSubmitBacklog ==
    /\ modalItem # <<>>
    /\ SubmitAllowed
    /\ ValidPoints(modalStoryPoints)
    /\ IF modalItem[1] = 0
       THEN /\ Len(pointItems) < MaxPointItems
            /\ pointItems' = Append(pointItems,
                                    [story_points |-> modalStoryPoints,
                                     via |-> "modal"])
       ELSE pointItems' = [pointItems EXCEPT ![modalItem[1]] =
                              [story_points |-> modalStoryPoints,
                               via |-> "modal"]]
    /\ modalItem' = <<>>
    /\ modalStoryPoints' = 5
    /\ UNCHANGED <<besidesPoints, iaStoryPoints, iaAnalysed>>

\* Cancel: onClose
CloseBacklogModal ==
    /\ modalItem # <<>>
    /\ modalItem' = <<>>
    /\ modalStoryPoints' = 5
    /\ UNCHANGED <<besidesPoints, iaStoryPoints, iaAnalysed, pointItems>>

InitPoints ==
    /\ InitMain
    /\ display = <<>>
    /\ NothingRendered
    /\ LogStoreIdle
    /\ EngineIdle
    /\ HistoryIdle
    /\ LifeIdle
    /\ PointsIdle
    /\ DatesIdle
    /\ ApiIdle

NextPoints ==
    \/ SetImpactStoryPoints
    \/ AnalyzePoints
    \/ ActionCreatesItem
    \/ AnalyzeAnother
    \/ OpenBacklogModal
    \/ SetModalStoryPoints
    \/ HandleAISuggestion
    \/ HandleSubmitBacklog
    \/ CloseBacklogModal

SpecPoints == InitPoints /\ [][NextPoints]_vars

\* C19: every item created or updated through the UI has story points
\* between 3 and 15.
C19_StoryPointsBetween3And15 ==
    \A i \in 1..Len(pointItems) :
        /\ pointItems[i].story_points >= 3
        /\ pointItems[i].story_points <= 15

\* the same for the items last written by BacklogModal
C19_ModalStoryPointsBetween3And15 ==
    \A i \in 1..Len(pointItems) :
        pointItems[i].via = "modal" =>
            /\ pointItems[i].story_points >= 3
            /\ pointItems[i].story_points <= 15

\* an item written by BacklogModal after an AI suggestion, in the range
C19_ModalWitness ==
    \E i \in 1..Len(pointItems) :
        /\ pointItems[i].via = "modal"
        /\ pointItems[i].story_points = 8

----------------------------------------------------------------------------
(* Sprint dates: the burndown ideal series of a sprint and the Days cell of *)
(* the Dashboard's sprint row. Dates are day numbers; the clock counts half *)
(* days, so that midnight of day d is the instant 2 * d.                    *)
MaxDay   == 2   \* latest start date
MaxSpan  == 2   \* most days between start and end
MaxClock == 8   \* the clock stops here

besidesDates == <<clientVars, logs, logStoreVars, engineVars, historyVars,
                  lifeVars, pointVars, apiVars>>

TotalPoints == {0, 3, 8}

\* sprints as the store holds them: without dates (a fixed duration, not
\* started) or with a start and an end that is not before it
CalSprints ==
    {[start_date |-> <<>>, end_date |-> <<>>, total_points |-> t] :
        t \in TotalPoints}
    \cup {[start_date |-> <<d>>, end_date |-> <<d + n>>, total_points |-> t] :
            d \in 0..MaxDay, n \in 0..MaxSpan, t \in TotalPoints}

Dated(sp) == sp.start_date # <<>> /\ sp.end_date # <<>>

\* calendar days from start to end, both included
CalDays(sp) == sp.end_date[1] - sp.start_date[1] + 1

\* a series that stops the day before the sprint ends
IdealSeriesWithoutEndDay(sp, only) ==
    IF ~Dated(sp) THEN <<>>
    ELSE [i \in 1..(CalDays(sp) - 1) |->
             [date  |-> sp.start_date[1] + i - 1,
              ideal |-> sp.total_points * (CalDays(sp) - i)]]

\* ideal_burndown: the line from total_points on the start date to 0 on the
\* end date, one point a day; ideal is held times Scale(sp). A sprint of
\* one day has no line: its one point is `only`.
IdealSeries(sp, only) ==
    IF ~Dated(sp) THEN <<>>
    ELSE IF CalDays(sp) = 1
         THEN <<[date |-> sp.start_date[1], ideal |-> only]>>
         ELSE [i \in 1..CalDays(sp) |->
                  [date  |-> sp.start_date[1] + i - 1,
                   ideal |-> sp.total_points * (CalDays(sp) - i)]]

\* what the ideal values are multiplied by
Scale(sp) == IF Dated(sp) /\ CalDays(sp) > 1 THEN CalDays(sp) - 1 ELSE 1

\* getSprintBurndown(sprintId), answered
GetSprintBurndown ==
    \E only \in {calSprint.total_points, 0} :
        /\ burndownOut' = <<[ideal_burndown |-> IdealSeries(calSprint, only),
                             total_points   |-> calSprint.total_points]>>
        /\ burndownOut' # burndownOut
        /\ UNCHANGED <<besidesDates, calSprint, calNow, daysCell>>

\* Math.ceil(a / b) for b > 0
CeilDiv(a, b) == -((-a) \div b)

\* the Days cell: sprint.start_date && sprint.end_date
\*   ? Math.max(0, Math.ceil((new Date(end_date) - new Date()) / 86400000))
\*   : 'N/A'
DaysText(sp, now) ==
    IF Dated(sp)
    THEN [kind |-> "number",
          days |-> IF CeilDiv(2 * sp.end_date[1] - now, 2) > 0
                   THEN CeilDiv(2 * sp.end_date[1] - now, 2) ELSE 0,
          at   |-> now]
    ELSE [kind |-> "N/A", days |-> 0, at |-> now]

\* the Dashboard renders the sprint row
RenderDays ==
    /\ daysCell' = <<DaysText(calSprint, calNow)>>
    /\ daysCell' # daysCell
    /\ UNCHANGED <<besidesDates, calSprint, calNow, burndownOut>>

\* half a day passes
Tick ==
    /\ calNow < MaxClock
    /\ calNow' = calNow + 1
    /\ UNCHANGED <<besidesDates, calSprint, burndownOut, daysCell>>

InitDates ==
    /\ InitMain
    /\ display = <<>>
    /\ NothingRendered
    /\ LogStoreIdle
    /\ EngineIdle
    /\ HistoryIdle
    /\ LifeIdle
    /\ PointsIdle
    /\ ApiIdle
    /\ calSprint \in CalSprints
    /\ calNow = 0
    /\ burndownOut = <<>>
    /\ daysCell = <<>>

NextDates ==
    \/ GetSprintBurndown
    \/ RenderDays
    \/ Tick

SpecDates == InitDates /\ [][NextDates]_vars

\* the ideal series answered for the sprint
Ideal == burndownOut[1].ideal_burndown

\* one point per calendar day from start to end, never increasing
OnePointADayNeverIncreasing ==
    /\ Len(Ideal) = CalDays(calSprint)
    /\ \A i \in 1..Len(Ideal) : Ideal[i].date = calSprint.start_date[1] + i - 1
    /\ \A i \in 1..(Len(Ideal) - 1) : Ideal[i].ideal >= Ideal[i + 1].ideal

\* the first value is total_points and the last is 0
FromTotalToZero ==
    /\ Ideal[1].ideal = calSprint.total_points * Scale(calSprint)
    /\ Ideal[Len(Ideal)].ideal = 0

C22_DaysNonNegativeIntegerEverySprint ==
    daysCell # <<>> =>
        /\ daysCell[1].kind = "number"
        /\ daysCell[1].days >= 0
        /\ (Dated(calSprint) /\ 2 * calSprint.end_date[1] < daysCell[1].at) =>
               daysCell[1].days = 0

\* the same for the sprints that have both dates
C22_DaysNonNegativeIntegerDatedSprint ==
    (daysCell # <<>> /\ Dated(calSprint)) =>
        /\ daysCell[1].kind = "number"
        /\ daysCell[1].days >= 0
        /\ 2 * calSprint.end_date[1] < daysCell[1].at => daysCell[1].days = 0

----------------------------------------------------------------------------
(* ApiClient.request.  A call is what the network will do with it: fetch    *)
(* rejects, or resolves with a response of some status, status text and     *)
(* body.  A body is a JSON object with a detail ("" when it has none), the  *)
(* JSON null, or a text that is no JSON.  The handler is suspended at the   *)
(* await of fetch and, for all but a 204, at the await of response.json().  *)
Statuses    == {200, 204, 404, 500}
StatusTexts == {"", "Not Found"}
Details     == {"", "Sprint not found"}
Bodies ==
    {[kind |-> "object", detail |-> d] : d \in Details}
    \cup {[kind |-> "null", detail |-> ""], [kind |-> "invalid", detail |-> ""]}

Responses ==
    {[status |-> st, statusText |-> tx, body |-> b] :
        st \in Statuses, tx \in StatusTexts, b \in Bodies}

\* response.ok
Ok(response) == response.status >= 200 /\ response.status <= 299

besidesApi == <<clientVars, logs, logStoreVars, engineVars, historyVars,
                lifeVars, pointVars, dateVars>>

Returned(value) == [kind |-> "return", value |-> value, message |-> ""]
Thrown(message) == [kind |-> "throw", value |-> <<>>, message |-> message]

\* request(endpoint, options) up to `await fetch(url, config)`
Request ==
    /\ apiFlight = <<>>
    /\ \/ apiFlight' = <<[stage |-> "fetch", net |-> <<>>]>>
       \/ \E response \in Responses :
             apiFlight' = <<[stage |-> "fetch", net |-> <<response>>]>>
    /\ UNCHANGED <<besidesApi, apiOutcome>>

\* a request that answers a failed call with its body
FetchSettlesLenient ==
    /\ apiFlight # <<>>
    /\ apiFlight[1].stage = "fetch"
    /\ LET net == apiFlight[1].net IN
         IF net = <<>>
         THEN /\ apiOutcome' = <<[call |-> net, end |-> Thrown("Failed to fetch")]>>
              /\ apiFlight' = <<>>
         ELSE IF net[1].status = 204
         THEN /\ apiOutcome' = <<[call |-> net, end |-> Returned(<<>>)]>>
              /\ apiFlight' = <<>>
         ELSE /\ apiFlight' = <<[stage |-> "okJson", net |-> net]>>
              /\ UNCHANGED apiOutcome
    /\ UNCHANGED besidesApi

\* fetch settles: a rejection is caught, logged and thrown again; a response
\* that is not ok goes on to read its error body; a 204 returns null; any
\* other response goes on to read its body
FetchSettles ==
    /\ apiFlight # <<>>
    /\ apiFlight[1].stage = "fetch"
    /\ LET net == apiFlight[1].net IN
         IF net = <<>>
         THEN /\ apiOutcome' = <<[call |-> net, end |-> Thrown("Failed to fetch")]>>
              /\ apiFlight' = <<>>
         ELSE IF ~Ok(net[1])
         THEN /\ apiFlight' = <<[stage |-> "errorJson", net |-> net]>>
              /\ UNCHANGED apiOutcome
         ELSE IF net[1].status = 204
         THEN /\ apiOutcome' = <<[call |-> net, end |-> Returned(<<>>)]>>
              /\ apiFlight' = <<>>
         ELSE /\ apiFlight' = <<[stage |-> "okJson", net |-> net]>>
              /\ UNCHANGED apiOutcome
    /\ UNCHANGED besidesApi

\* const error = await response.json().catch(() => ({ detail: statusText }));
\* throw new Error(error.detail || 'An error occurred')
ErrorMessage(response) ==
    CASE response.body.kind = "invalid" ->
            IF response.statusText # "" THEN response.statusText
            ELSE "An error occurred"
      [] response.body.kind = "null" -> "TypeError"
      [] response.body.kind = "object" ->
            IF response.body.detail # "" THEN response.body.detail
            ELSE "An error occurred"

\* the error body has been read: throw, caught, logged and thrown again
ErrorJsonSettles ==
    /\ apiFlight # <<>>
    /\ apiFlight[1].stage = "errorJson"
    /\ apiOutcome' = <<[call |-> apiFlight[1].net,
                        end  |-> Thrown(ErrorMessage(apiFlight[1].net[1]))]>>
    /\ apiFlight' = <<>>
    /\ UNCHANGED besidesApi

\* return await response.json(): the parsed body, or its SyntaxError
OkJsonSettles ==
    /\ apiFlight # <<>>
    /\ apiFlight[1].stage = "okJson"
    /\ LET body == apiFlight[1].net[1].body IN
         apiOutcome' =
           <<[call |-> apiFlight[1].net,
              end  |-> CASE body.kind = "invalid" -> Thrown("SyntaxError")
                         [] body.kind = "null"    -> Returned(<<>>)
                         [] body.kind = "object"  -> Returned(<<body>>)]>>
    /\ apiFlight' = <<>>
    /\ UNCHANGED besidesApi

InitApi ==
    /\ InitMain
    /\ display = <<>>
    /\ NothingRendered
    /\ LogStoreIdle
    /\ EngineIdle
    /\ HistoryIdle
    /\ LifeIdle
    /\ PointsIdle
    /\ DatesIdle
    /\ ApiIdle

NextApi ==
    \/ Request
    \/ FetchSettles
    \/ ErrorJsonSettles
    \/ OkJsonSettles

SpecApi == InitApi /\ [][NextApi]_vars

\* the call that settled last, and how it ended
LastCall == apiOutcome[1].call
LastEnd  == apiOutcome[1].end

\* a value is returned only for an ok response: null for a 204, else the
\* parsed body; every response that is not ok and every network failure
\* ends in a throw
NoFailureReturnsAValue ==
    apiOutcome # <<>> =>
        /\ LastEnd.kind = "return" =>
              /\ LastCall # <<>>
              /\ Ok(LastCall[1])
              /\ LastCall[1].body.kind # "invalid" \/ LastCall[1].status = 204
              /\ LastEnd.value = IF LastCall[1].status = 204
                                    \/ LastCall[1].body.kind = "null"
                                 THEN <<>> ELSE <<LastCall[1].body>>
        /\ (LastCall = <<>> \/ ~Ok(LastCall[1])) => LastEnd.kind = "throw"
        /\ (LastCall # <<>> /\ LastCall[1].status = 204) =>
              LastEnd = Returned(<<>>)

\* C28: request returns the parsed body only for an ok response (null for
\* a 204) and throws for every response that is not ok and every network
\* failure, the error body being valid JSON or not; the Error of a response
\* that is not ok carries the server's detail, else the status text, else
\* 'An error occurred'.
C28_FailedCallThrowsDetailElseStatusText ==
    /\ NoFailureReturnsAValue
    /\ (apiOutcome # <<>> /\ LastCall # <<>> /\ ~Ok(LastCall[1])) =>
          LastEnd.message =
             IF LastCall[1].body.detail # "" THEN LastCall[1].body.detail
             ELSE IF LastCall[1].statusText # "" THEN LastCall[1].statusText
             ELSE "An error occurred"

\* C28 amended: as above, but the Error of a response that is not ok
\* carries the server's detail when the body is a JSON object with one, the
\* status text when the body is no JSON and the status text is not empty,
\* and 'An error occurred' when the body is a JSON object without detail or
\* when the body is no JSON and the status text is empty.
C28_FailedCallThrowsDetailOrStatusTextOfUnparsedBody ==
    /\ NoFailureReturnsAValue
    /\ (apiOutcome # <<>> /\ LastCall # <<>> /\ ~Ok(LastCall[1])) =>
          /\ LastCall[1].body.detail # "" =>
                LastEnd.message = LastCall[1].body.detail
          /\ (LastCall[1].body.kind = "invalid"
                /\ LastCall[1].statusText # "") =>
                LastEnd.message = LastCall[1].statusText
          /\ (LastCall[1].body.kind = "invalid"
                /\ LastCall[1].statusText = "") =>
                LastEnd.message = "An error occurred"
          /\ (LastCall[1].body.kind = "object"
                /\ LastCall[1].body.detail = "") =>
                LastEnd.message = "An error occurred"

\* a 500 whose body is no JSON has ended in a throw carrying the status text
C28_Witness ==
    /\ apiOutcome # <<>>
    /\ LastCall # <<>>
    /\ LastCall[1].status = 500
    /\ LastCall[1].body.kind = "invalid"
    /\ LastEnd = Thrown("Not Found")

====
